---- MODULE Spec2Model ----
(***************************************************************************)
(* Model of searx_plugins/ai_summarize_select_fetch.py: the ContentAnalyzer *)
(* tag-stack parser, the extraction orchestrator _extract_enhanced and the  *)
(* concurrent fetch pipeline fetch_pages / fetch_and_extract.               *)
(*                                                                          *)
(* Text is modelled exactly, at character level, in run-length encoding: a  *)
(* text is a sequence of runs [c |-> character, n |-> repetitions] in which *)
(* no two neighbouring runs have the same character and every n >= 1.  A    *)
(* plain string is the case n = 1 everywhere; the encoding only makes the   *)
(* texts of 50, 100, 200 and 9000 characters the code's thresholds speak    *)
(* about affordable.                                                        *)
(***************************************************************************)
EXTENDS Integers, Sequences, FiniteSets, TLC

----------------------------------------------------------------------------
(* Bounds of the model *)

\* deepest tag stack the document generator builds
MaxDepth == 3
\* number of text events one generated document holds
MaxData == 3
\* number of text runs inside the element of a single-element document
MaxSingleRuns == 2
\* number of elements of a document handed to _extract_enhanced
MaxElems == 3
\* number of URLs of a batch handed to fetch_pages
NumUrls == 3

----------------------------------------------------------------------------
(* Strings *)

Run(c, n) == [c |-> c, n |-> n]

\* str.isspace() on one character
IsSpace(c) == c \in {" ", "\n", "\t"}

RECURSIVE SumLen(_)
SumLen(t) == IF t = <<>> THEN 0 ELSE Head(t).n + SumLen(Tail(t))

\* len(s)
StrLen(t) == SumLen(t)

\* the canonical encoding: empty runs dropped, equal neighbours merged
RECURSIVE Norm(_)
Norm(t) ==
    IF t = <<>> THEN <<>>
    ELSE IF Head(t).n = 0 THEN Norm(Tail(t))
    ELSE LET r == Norm(Tail(t)) IN
         IF r # <<>> /\ Head(r).c = Head(t).c
         THEN <<Run(Head(t).c, Head(t).n + Head(r).n)>> \o Tail(r)
         ELSE <<Head(t)>> \o r

\* s + t
Cat(s, t) == Norm(s \o t)

RECURSIVE LStrip(_)
LStrip(t) ==
    IF t = <<>> THEN <<>>
    ELSE IF IsSpace(Head(t).c) THEN LStrip(Tail(t))
    ELSE t

RECURSIVE RStrip(_)
RStrip(t) ==
    IF t = <<>> THEN <<>>
    ELSE IF IsSpace(t[Len(t)].c) THEN RStrip(SubSeq(t, 1, Len(t) - 1))
    ELSE t

\* s.strip()
Strip(t) == RStrip(LStrip(t))

\* s[:k] for k >= 0
RECURSIVE Take(_, _)
Take(t, k) ==
    IF t = <<>> \/ k <= 0 THEN <<>>
    ELSE IF Head(t).n >= k THEN <<Run(Head(t).c, k)>>
    ELSE <<Head(t)>> \o Take(Tail(t), k - Head(t).n)

\* t[:k]: a negative k counts from the end
SliceTo(t, k) == IF k >= 0 THEN Take(t, k) ELSE Take(t, StrLen(t) + k)

\* sep.join(parts)
RECURSIVE Join(_, _)
Join(sep, parts) ==
    IF parts = <<>> THEN <<>>
    ELSE IF Len(parts) = 1 THEN Head(parts)
    ELSE Cat(Head(parts), Cat(sep, Join(sep, Tail(parts))))

\* whether character c occurs in t
HasChar(t, c) == \E i \in 1..Len(t) : t[i].c = c

\* plain (unencoded) strings, used for attribute values and patterns
RECURSIVE IsPrefixAt(_, _, _)
IsPrefixAt(p, s, i) ==
    \/ p = <<>>
    \/ /\ i <= Len(s)
       /\ s[i] = Head(p)
       /\ IsPrefixAt(Tail(p), s, i + 1)

\* p in s, for plain strings
Contains(s, p) == \E i \in 1..(Len(s) + 1) : IsPrefixAt(p, s, i)

\* str.lower() on one character of the alphabet the model uses
UpperCase ==
    <<"A", "B", "C", "D", "E", "F", "G", "H", "I", "J", "K", "L", "M",
      "N", "O", "P", "Q", "R", "S", "T", "U", "V", "W", "X", "Y", "Z">>
LowerCase ==
    <<"a", "b", "c", "d", "e", "f", "g", "h", "i", "j", "k", "l", "m",
      "n", "o", "p", "q", "r", "s", "t", "u", "v", "w", "x", "y", "z">>

LowerChar(c) ==
    IF \E i \in 1..26 : UpperCase[i] = c
    THEN LowerCase[CHOOSE i \in 1..26 : UpperCase[i] = c]
    ELSE c

\* the capital I with a dot above, the one character whose lower case is
\* two characters: i and the combining dot above
CAPITAL_I_DOT == "U+0130"
COMBINING_DOT == "U+0307"

RECURSIVE LowerExpand(_)
LowerExpand(s) ==
    IF s = <<>> THEN <<>>
    ELSE (IF Head(s) = CAPITAL_I_DOT THEN <<"i", COMBINING_DOT>>
          ELSE <<LowerChar(Head(s))>>)
         \o LowerExpand(Tail(s))

\* s.lower(), for plain strings
Lower(s) ==
    IF \E i \in 1..Len(s) : s[i] = CAPITAL_I_DOT THEN LowerExpand(s)
    ELSE [i \in 1..Len(s) |-> LowerChar(s[i])]

----------------------------------------------------------------------------
(* ContentAnalyzer: class constants *)

EXCLUDED_TAGS ==
    {"nav", "header", "footer", "aside", "script", "style", "iframe",
     "noscript", "form", "button", "input", "select", "textarea"}

CONTENT_TAGS == {"article", "main", "section", "div", "p"}

\* The regular expressions of EXCLUDED_PATTERNS.  All but the first are
\* literals; ad[sv]?[-_] is the union of six literals.
EXCLUDED_PATTERNS ==
    {<<"a","d","-">>, <<"a","d","_">>, <<"a","d","s","-">>, <<"a","d","s","_">>,
     <<"a","d","v","-">>, <<"a","d","v","_">>,
     <<"b","a","n","n","e","r">>,
     <<"p","r","o","m","o">>,
     <<"s","p","o","n","s","o","r">>,
     <<"s","o","c","i","a","l">>,
     <<"s","h","a","r","e">>,
     <<"c","o","m","m","e","n","t">>,
     <<"f","o","o","t","e","r">>,
     <<"h","e","a","d","e","r">>,
     <<"n","a","v">>,
     <<"m","e","n","u">>,
     <<"s","i","d","e","b","a","r">>,
     <<"w","i","d","g","e","t">>,
     <<"p","o","p","u","p">>,
     <<"m","o","d","a","l">>,
     <<"c","o","o","k","i","e">>,
     <<"s","u","b","s","c","r","i","b","e">>,
     <<"n","e","w","s","l","e","t","t","e","r">>}

\* minimum block length of handle_endtag
MIN_BLOCK_LEN == 50

\* any(re.search(pattern, value) for pattern in EXCLUDED_PATTERNS)
MatchesExcluded(value) == \E p \in EXCLUDED_PATTERNS : Contains(value, p)

----------------------------------------------------------------------------
(* ContentAnalyzer: attributes *)

\* The value html.parser reports for an attribute written without a value
\* (<div class>): Python's None.  No plain string equals it.
None == <<"None">>

\* one attribute of a start tag: present or not, and its value
Attr(value) == [present |-> TRUE, value |-> value]
NoAttr == [present |-> FALSE, value |-> <<>>]

\* dict(attrs).get(name, '')
AttrGet(attrs, name) == IF attrs[name].present THEN attrs[name].value ELSE <<>>

NoAttrs == [class |-> NoAttr, id |-> NoAttr]

----------------------------------------------------------------------------
(* ContentAnalyzer: the handlers, as functions of the instance *)

\* ContentAnalyzer.__init__
NewAnalyzer ==
    [content_blocks    |-> <<>>,
     current_block     |-> <<>>,
     current_tag_stack |-> <<>>,
     in_excluded       |-> FALSE,
     excluded_depth    |-> 0]

\* the attribute loop of handle_starttag: "raise" when .lower() is called
\* on None, "exclude" when a pattern matches, "keep" when the loop ends
RECURSIVE AttrScan(_, _)
AttrScan(attrs, names) ==
    IF names = <<>> THEN "keep"
    ELSE LET v == AttrGet(attrs, Head(names)) IN
         IF v = None THEN "raise"
         ELSE IF MatchesExcluded(Lower(v)) THEN "exclude"
         ELSE AttrScan(attrs, Tail(names))

\* the exception handle_starttag raises, or "none"
StartTagRaises(self, tag, attrs) ==
    IF /\ ~self.in_excluded
       /\ tag \notin EXCLUDED_TAGS
       /\ AttrScan(attrs, <<"class", "id">>) = "raise"
    THEN "AttributeError"
    ELSE "none"

\* ContentAnalyzer.handle_starttag: the instance afterwards (when it raises,
\* the instance as the exception leaves it)
HandleStartTag(self, tag, attrs) ==
    LET pushed == [self EXCEPT !.current_tag_stack = Append(@, tag)] IN
    IF self.in_excluded
    THEN [pushed EXCEPT !.excluded_depth = @ + 1]
    ELSE IF tag \in EXCLUDED_TAGS
    THEN [pushed EXCEPT !.in_excluded = TRUE, !.excluded_depth = 1]
    ELSE IF AttrScan(attrs, <<"class", "id">>) = "exclude"
    THEN [pushed EXCEPT !.in_excluded = TRUE, !.excluded_depth = 1]
    ELSE pushed

\* whether tag is on the stack
OnStack(stack, tag) == \E i \in 1..Len(stack) : stack[i] = tag

\* len(stack) - 1 - list(reversed(stack)).index(tag), 1-based
LastIndex(stack, tag) ==
    CHOOSE i \in 1..Len(stack) :
        /\ stack[i] = tag
        /\ \A j \in (i + 1)..Len(stack) : stack[j] # tag

\* stack.pop(idx)
RemoveAt(stack, i) == SubSeq(stack, 1, i - 1) \o SubSeq(stack, i + 1, Len(stack))

\* the try/except around the pop in handle_endtag
PopMatching(stack, tag) ==
    IF stack # <<>> /\ OnStack(stack, tag)
    THEN RemoveAt(stack, LastIndex(stack, tag))
    ELSE stack

\* ExitExcluded without the test that clears in_excluded at depth 0
ExitExcluded_NoClear(self) ==
    IF self.in_excluded /\ self.excluded_depth > 0
    THEN [self EXCEPT !.excluded_depth = @ - 1]
    ELSE self

\* the "exit excluded section" part of handle_endtag
ExitExcluded(self) ==
    IF self.in_excluded
    THEN LET d == IF self.excluded_depth > 0
                  THEN self.excluded_depth - 1
                  ELSE self.excluded_depth
         IN [self EXCEPT !.excluded_depth = d,
                         !.in_excluded = IF d = 0 THEN FALSE ELSE @]
    ELSE self

\* ' '.join(current_block).strip()
BlockText(current_block) == Strip(Join(<<Run(" ", 1)>>, current_block))

\* SaveBlock keeping a block of exactly MIN_BLOCK_LEN characters (>= for >)
SaveBlock_AtLeast(self, tag) ==
    IF tag \in CONTENT_TAGS /\ self.current_block # <<>> /\ ~self.in_excluded
    THEN LET block_text == BlockText(self.current_block) IN
         [self EXCEPT
            !.content_blocks = IF StrLen(block_text) >= MIN_BLOCK_LEN
                               THEN Append(@, block_text) ELSE @,
            !.current_block = <<>>]
    ELSE self

\* SaveBlock leaving the accumulator as it is after the block was emitted
SaveBlock_KeepAccumulator(self, tag) ==
    IF tag \in CONTENT_TAGS /\ self.current_block # <<>> /\ ~self.in_excluded
    THEN LET block_text == BlockText(self.current_block) IN
         [self EXCEPT
            !.content_blocks = IF StrLen(block_text) > MIN_BLOCK_LEN
                               THEN Append(@, block_text) ELSE @]
    ELSE self

\* SaveBlock emptying the accumulator only when the block is kept
SaveBlock_ClearWhenKept(self, tag) ==
    IF tag \in CONTENT_TAGS /\ self.current_block # <<>> /\ ~self.in_excluded
    THEN LET block_text == BlockText(self.current_block) IN
         IF StrLen(block_text) > MIN_BLOCK_LEN
         THEN [self EXCEPT !.content_blocks = Append(@, block_text),
                           !.current_block = <<>>]
         ELSE self
    ELSE self

\* the "save content block" part of handle_endtag
SaveBlock(self, tag) ==
    IF tag \in CONTENT_TAGS /\ self.current_block # <<>> /\ ~self.in_excluded
    THEN LET block_text == BlockText(self.current_block) IN
         [self EXCEPT
            !.content_blocks = IF StrLen(block_text) > MIN_BLOCK_LEN
                               THEN Append(@, block_text) ELSE @,
            !.current_block = <<>>]
    ELSE self

\* ContentAnalyzer.handle_endtag
HandleEndTag(self, tag) ==
    SaveBlock(
        ExitExcluded(
            [self EXCEPT !.current_tag_stack = PopMatching(@, tag)]),
        tag)

\* ContentAnalyzer.handle_data
HandleData(self, data) ==
    IF ~self.in_excluded
    THEN LET text == Strip(data) IN
         IF text # <<>>
         THEN [self EXCEPT !.current_block = Append(@, text)]
         ELSE self
    ELSE self

----------------------------------------------------------------------------
(* Documents as event sequences, and feed() *)

StartEvent(tag, attrs) == [type |-> "start", tag |-> tag, attrs |-> attrs, data |-> <<>>]
EndEvent(tag) == [type |-> "end", tag |-> tag, attrs |-> NoAttrs, data |-> <<>>]
DataEvent(data) == [type |-> "data", tag |-> "", attrs |-> NoAttrs, data |-> data]

\* the handler html.parser calls for one event
Handle(self, e) ==
    CASE e.type = "start" -> HandleStartTag(self, e.tag, e.attrs)
      [] e.type = "end" -> HandleEndTag(self, e.tag)
      [] e.type = "data" -> HandleData(self, e.data)

\* the exception that handler raises, or "none"
HandleRaises(self, e) ==
    IF e.type = "start" THEN StartTagRaises(self, e.tag, e.attrs) ELSE "none"

\* analyzer.feed(html) on a fresh or used instance: the instance afterwards
\* and the exception that ended the call, or "none"
RECURSIVE Feed(_, _)
Feed(self, events) ==
    IF events = <<>> THEN [self |-> self, exc |-> "none"]
    ELSE IF HandleRaises(self, Head(events)) # "none"
    THEN [self |-> Handle(self, Head(events)),
          exc |-> HandleRaises(self, Head(events))]
    ELSE Feed(Handle(self, Head(events)), Tail(events))

----------------------------------------------------------------------------
(* Character classes and searches on encoded text *)

\* the character U+2026 (horizontal ellipsis), one character long
ELLIPSIS == "U+2026"

Letters == {"a", "b", "x", "A", "B"}
Digits == {"0", "1"}

\* str.isalnum() on one character
IsAlnum(c) == c \in Letters \cup Digits

\* what \w of the re module matches
IsWordChar(c) == IsAlnum(c) \/ c = "_"

\* str.lower() on one character of encoded text
LowerTextChar(c) ==
    CASE c = "A" -> "a"
      [] c = "B" -> "b"
      [] OTHER -> c

\* text.lower()
LowerText(t) == Norm([i \in 1..Len(t) |-> Run(LowerTextChar(t[i].c), t[i].n)])

\* number of characters of t in the runs marked TRUE
RECURSIVE CountMarked(_, _)
CountMarked(t, mark) ==
    IF t = <<>> THEN 0
    ELSE (IF Head(mark) THEN Head(t).n ELSE 0) + CountMarked(Tail(t), Tail(mark))

\* number of characters of t that satisfy the class test P
CountWhere(t, P(_)) == CountMarked(t, [i \in 1..Len(t) |-> P(t[i].c)])

\* offset (0-based) at which run i of t starts
RECURSIVE RunStart(_, _)
RunStart(t, i) == IF i <= 1 THEN 0 ELSE t[i - 1].n + RunStart(t, i - 1)

\* whether p occurs in t so that p's first run ends with run i of t:
\* the first run of p is a suffix of run i (or lies anywhere in it when p
\* is a single run), the inner runs are equal, the last is a prefix
OccursAtRun(t, p, i) ==
    /\ p # <<>>
    /\ i + Len(p) - 1 <= Len(t)
    /\ \A k \in 1..Len(p) :
          /\ t[i + k - 1].c = p[k].c
          /\ IF k = 1 \/ k = Len(p)
             THEN t[i + k - 1].n >= p[k].n
             ELSE t[i + k - 1].n = p[k].n

\* the offset counted from the end of the run instead of the start of t
OccurrenceOffset_FromEnd(t, p, i) == StrLen(t) - RunStart(t, i) - 1

\* offset of the leftmost occurrence that starts in run i
OccurrenceOffset(t, p, i) ==
    IF Len(p) = 1 THEN RunStart(t, i) ELSE RunStart(t, i) + t[i].n - p[1].n

\* a test that never finds p
TextContains_Never(t, p) == FALSE

\* p in t
TextContains(t, p) ==
    p = <<>> \/ \E i \in 1..Len(t) : OccursAtRun(t, p, i)

\* t.find(p), -1 when p does not occur
TextFind(t, p) ==
    IF p = <<>> THEN 0
    ELSE IF ~\E i \in 1..Len(t) : OccursAtRun(t, p, i) THEN -1
    ELSE LET i == CHOOSE i \in 1..Len(t) :
                      /\ OccursAtRun(t, p, i)
                      /\ \A j \in 1..(i - 1) : ~OccursAtRun(t, p, j)
         IN OccurrenceOffset(t, p, i)

\* the maximal stretches of t made of runs marked TRUE, in order
RECURSIVE MarkedStretches(_, _, _)
MarkedStretches(t, mark, cur) ==
    IF t = <<>> THEN (IF cur = <<>> THEN <<>> ELSE <<cur>>)
    ELSE IF Head(mark)
    THEN MarkedStretches(Tail(t), Tail(mark), Append(cur, Head(t)))
    ELSE (IF cur = <<>> THEN <<>> ELSE <<cur>>)
         \o MarkedStretches(Tail(t), Tail(mark), <<>>)

\* the maximal stretches of t whose characters satisfy P, in order
Stretches(t, P(_), cur) ==
    MarkedStretches(t, [i \in 1..Len(t) |-> P(t[i].c)], cur)

NotSpace(c) == ~IsSpace(c)

\* text.split()
SplitWords(t) == Stretches(t, NotSpace, <<>>)

\* re.findall(r'\b\w+\b', t)
FindWords(t) == Stretches(t, IsWordChar, <<>>)

\* text.split('\n\n'): a run of k newlines holds k \div 2 separators, and
\* the newline left over when k is odd begins the next piece
RECURSIVE SplitParagraphs(_, _)
SplitParagraphs(t, cur) ==
    IF t = <<>> THEN <<cur>>
    ELSE IF Head(t).c = "\n" /\ Head(t).n >= 2
    THEN <<cur>>
         \o [i \in 1..((Head(t).n \div 2) - 1) |-> <<>>]
         \o SplitParagraphs(Tail(t),
                IF Head(t).n % 2 = 1 THEN <<Run("\n", 1)>> ELSE <<>>)
    ELSE SplitParagraphs(Tail(t), Cat(cur, <<Head(t)>>))

----------------------------------------------------------------------------
(* Scores.  The code computes them in floating point; here a score s in    *)
(* [0,1] is the integer floor(s * SCALE), every division rounding down.     *)

SCALE == 1000

\* min without the clamp: the first argument whatever the second
Min_NoClamp(a, b) == a

Min(a, b) == IF a <= b THEN a ELSE b

IsSentenceEnd(c) == c \in {".", "!", "?"}
IsAlnumOrSpace(c) == IsAlnum(c) \/ IsSpace(c)

\* _calculate_content_density
Density(text) ==
    IF text = <<>> THEN 0
    ELSE
    LET length == StrLen(text)
        length_score == (Min(length, 5000) * SCALE) \div 5000
        word_count == Len(SplitWords(text))
        word_density == (Min(word_count * 10, length) * SCALE) \div length
        sentence_endings == CountWhere(text, IsSentenceEnd)
        sentence_score ==
            IF word_count <= 15
            THEN Min(sentence_endings, 1) * SCALE
            ELSE (Min(sentence_endings * 15, word_count) * SCALE) \div word_count
        alnum_chars == CountWhere(text, IsAlnumOrSpace)
        alnum_ratio == (alnum_chars * SCALE) \div length
    IN (length_score * 30 + word_density * 25 + sentence_score * 25
          + alnum_ratio * 20) \div 100

\* the query terms without the filter on their length
QueryTerms_AllWords(query) ==
    LET words == FindWords(LowerText(query)) IN {words[i] : i \in 1..Len(words)}

\* the query terms: the words of the lower-cased query longer than 2
QueryTerms(query) ==
    LET words == FindWords(LowerText(query)) IN
    {words[i] : i \in {j \in 1..Len(words) : StrLen(words[j]) > 2}}

\* sum(f[x] for x in S)
RECURSIVE SumOver(_, _)
SumOver(S, f) ==
    IF S = {} THEN 0
    ELSE LET x == CHOOSE x \in S : TRUE IN f[x] + SumOver(S \ {x}, f)

\* _calculate_relevance_score
Relevance(text, query) ==
    IF text = <<>> \/ query = <<>> THEN 0
    ELSE
    LET text_lower == LowerText(text)
        query_lower == LowerText(query)
        query_terms == QueryTerms(query)
        text_words == FindWords(text_lower)
        text_word_freq ==
            [term \in query_terms |->
                Cardinality({i \in 1..Len(text_words) : text_words[i] = term})]
        term_matches == SumOver(query_terms, text_word_freq)
        nterms == Cardinality(query_terms)
        tf_score == IF nterms = 0 THEN 0
                    ELSE (Min(term_matches, nterms * 5) * SCALE) \div (nterms * 5)
        phrase_score == IF TextContains(text_lower, query_lower) THEN SCALE ELSE 0
        found == {TextFind(text_lower, term) : term \in query_terms} \ {-1}
        first_match_pos ==
            IF found = {} THEN StrLen(text)
            ELSE CHOOSE m \in found : \A o \in found : m <= o
        position_score == SCALE - ((first_match_pos * SCALE) \div StrLen(text))
    IN IF query_terms = {} THEN 0
       ELSE (tf_score * 50 + phrase_score * 30 + position_score * 20) \div 100

\* combined_score = density * 0.4 + relevance * 0.6
CombinedScore(text, query) ==
    (Density(text) * 40 + Relevance(text, query) * 60) \div 100

----------------------------------------------------------------------------
(* _extract_enhanced *)

\* The character budget is a module global read from the environment when
\* the module is loaded, int(os.getenv("SEARXNG_AI_EXTRACT_MAX_CHARS",
\* "9000")): any integer, fixed from then on.
VARIABLE EXTRACT_MAX_CHARS

\* its default
DEFAULT_EXTRACT_MAX_CHARS == 9000

\* quality thresholds of the two strategies, as scores
MIN_SCORE_BLOCKS == SCALE \div 10
MIN_SCORE_PARAGRAPHS == SCALE \div 20

\* the remaining budget above which a block is cut to fit
MIN_REMAINING == 200
\* "minimum viable content" of the joined result and of the raw text
MIN_RESULT_LEN == 100
\* paragraphs shorter than this (trimmed) are skipped
MIN_PARAGRAPH_LEN == 50

Scored(text, query) == [score |-> CombinedScore(text, query), text |-> text]

\* [(combined_score, block) for block in blocks]
ScoreAll(texts, query) == [i \in 1..Len(texts) |-> Scored(texts[i], query)]

\* an unstable sort: the item goes in front of the items of equal score
RECURSIVE InsertByScore_Unstable(_, _)
InsertByScore_Unstable(sorted, item) ==
    IF sorted = <<>> THEN <<item>>
    ELSE IF Head(sorted).score > item.score
    THEN <<Head(sorted)>> \o InsertByScore_Unstable(Tail(sorted), item)
    ELSE <<item>> \o sorted

\* the place of one more item in a list sorted by descending score: behind
\* every item of greater or equal score
RECURSIVE InsertByScore(_, _)
InsertByScore(sorted, item) ==
    IF sorted = <<>> THEN <<item>>
    ELSE IF Head(sorted).score >= item.score
    THEN <<Head(sorted)>> \o InsertByScore(Tail(sorted), item)
    ELSE <<item>> \o sorted

\* list.sort(reverse=True, key=lambda x: x[0]): stable, descending
RECURSIVE SortByScore(_)
SortByScore(items) ==
    IF items = <<>> THEN <<>>
    ELSE InsertByScore(SortByScore(SubSeq(items, 1, Len(items) - 1)),
                       items[Len(items)])

\* the loop with the test remaining >= 200 in place of remaining > 200
RECURSIVE Accumulate_CutAt200(_, _, _, _, _)
Accumulate_CutAt200(items, parts, total_chars, min_score, suffix) ==
    IF items = <<>> THEN parts
    ELSE LET score == Head(items).score
             block == Head(items).text
         IN IF score < min_score THEN parts
            ELSE IF total_chars + StrLen(block) > EXTRACT_MAX_CHARS
            THEN LET remaining == EXTRACT_MAX_CHARS - total_chars IN
                 IF remaining >= MIN_REMAINING
                 THEN Append(parts, Cat(Take(block, remaining), suffix))
                 ELSE parts
            ELSE Accumulate_CutAt200(Tail(items), Append(parts, block),
                                     total_chars + StrLen(block), min_score, suffix)

\* the accumulation loop of both strategies: the parts collected from the
\* sorted items, given the parts and total_chars so far; suffix is what a
\* cut part gets appended
RECURSIVE Accumulate(_, _, _, _, _)
Accumulate(items, parts, total_chars, min_score, suffix) ==
    IF items = <<>> THEN parts
    ELSE LET score == Head(items).score
             block == Head(items).text
         IN IF score < min_score THEN parts
            ELSE IF total_chars + StrLen(block) > EXTRACT_MAX_CHARS
            THEN LET remaining == EXTRACT_MAX_CHARS - total_chars IN
                 IF remaining > MIN_REMAINING
                 THEN Append(parts, Cat(Take(block, remaining), suffix))
                 ELSE parts
            ELSE Accumulate(Tail(items), Append(parts, block),
                            total_chars + StrLen(block), min_score, suffix)

NewLines2 == <<Run("\n", 2)>>

\* results of _extract_enhanced and of its parts
ReturnText(text) == [kind |-> "text", text |-> text, exc |-> "none"]
ReturnNone == [kind |-> "None", text |-> <<>>, exc |-> "none"]
Raise(exc) == [kind |-> "raise", text |-> <<>>, exc |-> exc]
\* a strategy that neither returned nor raised: control falls through
FallThrough == [kind |-> "fallthrough", text |-> <<>>, exc |-> "none"]

\* except (ValueError, TypeError)
CaughtByExtract(exc) == exc \in {"ValueError", "TypeError"}

\* the end of the first try block without the test of the joined length
JoinBlocks_NoMinLength(extracted) ==
    IF extracted # <<>> THEN ReturnText(Join(NewLines2, extracted)) ELSE FallThrough

\* the end of the first try block: the collected blocks are joined and
\* returned when they hold the minimum viable content
JoinBlocks(extracted) ==
    LET result == Join(NewLines2, extracted) IN
    IF extracted # <<>> /\ StrLen(result) > MIN_RESULT_LEN
    THEN ReturnText(result)
    ELSE FallThrough

\* the body of the first try block, given what feed() left behind
Strategy1Body(fed, query) ==
    IF fed.exc # "none" THEN Raise(fed.exc)
    ELSE IF fed.self.content_blocks = <<>> THEN FallThrough
    ELSE JoinBlocks(Accumulate(SortByScore(ScoreAll(fed.self.content_blocks, query)),
                               <<>>, 0, MIN_SCORE_BLOCKS, <<>>))

\* a try block with its except clause: a caught exception falls through
TryExcept(outcome) ==
    IF outcome.kind = "raise" /\ CaughtByExtract(outcome.exc)
    THEN FallThrough
    ELSE outcome

\* sequencing: what a step returned or raised ends the function, and when
\* it fell through the rest runs
OrElse(outcome, rest) == IF outcome.kind # "fallthrough" THEN outcome ELSE rest

\* strategy 1: parse with the custom analyzer
Strategy1(events, query) ==
    TryExcept(Strategy1Body(Feed(NewAnalyzer, events), query))

\* What trafilatura.extract does with the document is not code of this
\* program: it returns None, returns a text, or raises.
TrafNone == [kind |-> "None", text |-> <<>>, exc |-> "none"]
TrafText(text) == [kind |-> "text", text |-> text, exc |-> "none"]
TrafRaises(exc) == [kind |-> "raise", text |-> <<>>, exc |-> exc]

\* the paragraphs without the filter on their length
KeepLong_All(paragraphs) == paragraphs

\* the paragraphs of the extractor's text that are long enough, scored
RECURSIVE KeepLong(_)
KeepLong(paragraphs) ==
    IF paragraphs = <<>> THEN <<>>
    ELSE IF StrLen(Strip(Head(paragraphs))) < MIN_PARAGRAPH_LEN
    THEN KeepLong(Tail(paragraphs))
    ELSE <<Head(paragraphs)>> \o KeepLong(Tail(paragraphs))

\* the end of the second try block: the collected paragraphs joined, or
\* else the head of the extractor's text when it is long enough
JoinParagraphs(result_parts, text) ==
    IF result_parts # <<>>
    THEN ReturnText(Join(NewLines2, result_parts))
    ELSE IF StrLen(Strip(text)) > MIN_RESULT_LEN
    THEN ReturnText(SliceTo(text, EXTRACT_MAX_CHARS))
    ELSE FallThrough

\* the body of the second try block, given what trafilatura.extract did
Strategy2Body(traf, query) ==
    IF traf.kind = "raise" THEN Raise(traf.exc)
    ELSE IF traf.kind = "None" \/ traf.text = <<>> THEN FallThrough
    ELSE JoinParagraphs(
            Accumulate(SortByScore(ScoreAll(KeepLong(SplitParagraphs(traf.text, <<>>)),
                                            query)),
                       <<>>, 0, MIN_SCORE_PARAGRAPHS, <<Run(ELLIPSIS, 1)>>),
            traf.text)

\* strategy 2: trafilatura, then relevance filtering of its paragraphs
Strategy2(traf, query) == TryExcept(Strategy2Body(traf, query))

\* _extract_enhanced(html, url, query); html as its events, traf as what
\* trafilatura.extract does with html
ExtractEnhanced(events, query, traf) ==
    IF events = <<>> THEN ReturnNone
    ELSE OrElse(Strategy1(events, query), OrElse(Strategy2(traf, query), ReturnNone))

----------------------------------------------------------------------------
(* fetch_and_extract *)

FETCH_MAX_BYTES == 700000

\* a byte sequence that is not valid UTF-8, as one character of a body
INVALID_BYTE == "0xFF"

\* bytes of one attribute as written in a start tag: a space, the name and,
\* unless the attribute has no value, ="value"
AttrBytes(attrs, name) ==
    IF ~attrs[name].present THEN 0
    ELSE IF attrs[name].value = None THEN 1 + Len(name)
    ELSE 1 + Len(name) + 3 + Len(attrs[name].value)

\* bytes of one event as written in the body
EventBytes(e) ==
    CASE e.type = "start" ->
            2 + Len(e.tag) + AttrBytes(e.attrs, "class") + AttrBytes(e.attrs, "id")
      [] e.type = "end" -> 3 + Len(e.tag)
      [] e.type = "data" -> StrLen(e.data)

\* resp.content[:k]: the events the first k bytes hold; a tag the cut falls
\* into is never reported by html.parser, a text is reported up to the cut
RECURSIVE TruncateBytes(_, _)
TruncateBytes(body, k) ==
    IF body = <<>> \/ k <= 0 THEN <<>>
    ELSE IF EventBytes(Head(body)) <= k
    THEN <<Head(body)>> \o TruncateBytes(Tail(body), k - EventBytes(Head(body)))
    ELSE IF Head(body).type = "data"
    THEN <<DataEvent(Take(Head(body).data, k))>>
    ELSE <<>>

\* bytes.decode(errors="ignore") on one text: invalid sequences are dropped
RECURSIVE DropInvalid(_)
DropInvalid(t) ==
    IF t = <<>> THEN <<>>
    ELSE IF Head(t).c = INVALID_BYTE THEN DropInvalid(Tail(t))
    ELSE <<Head(t)>> \o DropInvalid(Tail(t))

\* whether a text holds a byte sequence that is not valid UTF-8
HasInvalid(t) == \E i \in 1..Len(t) : t[i].c = INVALID_BYTE

\* whether the body of a response holds one
BodyHasInvalid(body) ==
    \E i \in 1..Len(body) : body[i].type = "data" /\ HasInvalid(body[i].data)

\* .decode() with the default errors="strict": raises on an invalid sequence
Decode_Strict(body) ==
    [exc |-> IF BodyHasInvalid(body) THEN "UnicodeDecodeError" ELSE "none",
     events |-> body]

\* .decode(errors="ignore") on the body: the exception it raises (never
\* one) and the decoded document
Decode(body) ==
    [exc |-> "none",
     events |-> [i \in 1..Len(body) |->
                    IF body[i].type = "data"
                    THEN DataEvent(Norm(DropInvalid(body[i].data)))
                    ELSE body[i]]]

\* what the server of a URL does: the request times out, the connection
\* fails, or a response arrives with a status and a body; traf is what
\* trafilatura.extract makes of that body
SiteTimeout == [kind |-> "timeout", status |-> 0, body |-> <<>>, traf |-> TrafNone]
SiteConnectError == [kind |-> "connect", status |-> 0, body |-> <<>>, traf |-> TrafNone]
SiteResponse(status, body, t) ==
    [kind |-> "response", status |-> status, body |-> body, traf |-> t]

\* await client.get(url, follow_redirects=True): the exception it raises
GetRaises(site) ==
    CASE site.kind = "timeout" -> "TimeoutException"
      [] site.kind = "connect" -> "ConnectError"
      [] OTHER -> "none"

\* resp.raise_for_status(): the exception it raises, for every status
\* that is not a success (2xx)
RaiseForStatus(status) ==
    IF status >= 200 /\ status <= 299 THEN "none" ELSE "HTTPStatusError"

\* exceptions that derive from BaseException only
BaseOnly == {"CancelledError", "KeyboardInterrupt", "SystemExit"}

\* except httpx.HTTPError: what a narrower except clause would catch
CaughtByFetch_HttpOnly(exc) ==
    exc \in {"TimeoutException", "ConnectError", "HTTPStatusError"}

\* except Exception
CaughtByFetch(exc) == exc \notin BaseOnly

\* the tail of the try block without the cut to the budget
FinishText_NoCut(extracted) ==
    IF extracted.kind = "raise" THEN extracted
    ELSE IF extracted.kind = "None" \/ extracted.text = <<>> THEN ReturnNone
    ELSE ReturnText(Strip(extracted.text))

\* the tail of the try block: strip, cut to the budget and mark the cut
FinishText(extracted) ==
    IF extracted.kind = "raise" THEN extracted
    ELSE IF extracted.kind = "None" \/ extracted.text = <<>> THEN ReturnNone
    ELSE LET text == Strip(extracted.text) IN
         IF StrLen(text) > EXTRACT_MAX_CHARS
         THEN ReturnText(Cat(SliceTo(text, EXTRACT_MAX_CHARS), <<Run(ELLIPSIS, 1)>>))
         ELSE ReturnText(text)

\* the try block from the decoded text on
ExtractDecoded(raw, q, t) ==
    IF raw.exc # "none" THEN Raise(raw.exc)
    ELSE FinishText(ExtractEnhanced(raw.events, q, t))

\* the try block of fetch_and_extract
FetchBody(site, q) ==
    IF GetRaises(site) # "none" THEN Raise(GetRaises(site))
    ELSE IF RaiseForStatus(site.status) # "none" THEN Raise(RaiseForStatus(site.status))
    ELSE ExtractDecoded(Decode(TruncateBytes(site.body, FETCH_MAX_BYTES)), q, site.traf)

\* the except clause of fetch_and_extract: a caught exception gives
\* (url, None)
ExceptException(outcome) ==
    IF outcome.kind = "raise" /\ CaughtByFetch(outcome.exc) THEN ReturnNone ELSE outcome

\* fetch_and_extract(client, url, query): the second component of the
\* tuple it returns, or the exception that escapes its except clause
FetchAndExtract(site, q) == ExceptException(FetchBody(site, q))

\* [(u, t) for (u, t) in out], without the filter
KeepTexts_All(out, u) ==
    [i \in 1..(Len(out) + 1 - u) |-> [url |-> i + u - 1, text |-> out[i + u - 1].text]]

\* [(u, t) for (u, t) in out if t], out in the order of urls
RECURSIVE KeepTexts(_, _)
KeepTexts(out, u) ==
    IF u > Len(out) THEN <<>>
    ELSE IF out[u].kind = "text" /\ out[u].text # <<>>
    THEN <<[url |-> u, text |-> out[u].text]>> \o KeepTexts(out, u + 1)
    ELSE KeepTexts(out, u + 1)

----------------------------------------------------------------------------
(* The alphabet of the generated documents *)

\* tags the documents use: an excluded one, a content-bearing one and one
\* that is neither
ModelTags == {"nav", "div", "span"}

\* class="NAV-top" (matches the pattern nav once lower-cased), id="main"
\* (matches nothing) and a class attribute without a value
ClassNavTop == [class |-> Attr(<<"N","A","V","-","t","o","p">>), id |-> NoAttr]
IdMain == [class |-> NoAttr, id |-> Attr(<<"m","a","i","n">>)]
ClassNoValue == [class |-> Attr(None), id |-> NoAttr]

StartTags ==
    {[tag |-> "nav", attrs |-> NoAttrs],
     [tag |-> "div", attrs |-> NoAttrs],
     [tag |-> "div", attrs |-> IdMain],
     [tag |-> "div", attrs |-> ClassNavTop],
     [tag |-> "div", attrs |-> ClassNoValue],
     [tag |-> "span", attrs |-> NoAttrs]}

\* Text written inside an element of EXCLUDED_TAGS is made of the letter x,
\* text written anywhere else of the letter a: a block that holds an x
\* holds text of an excluded region.
ExcludedTexts ==
    {<<Run("x", 60)>>,
     <<Run(" ", 1), Run("x", 6)>>}

ContentTexts ==
    {<<Run("a", 60)>>,
     <<Run("\n", 1), Run("a", 6), Run(" ", 2)>>}

Whitespace == <<Run(" ", 1), Run("\n", 1)>>

\* whether an element of EXCLUDED_TAGS is open, by the tag stack
InExcludedElement(stack) ==
    \E i \in 1..Len(stack) : stack[i] \in EXCLUDED_TAGS

DataTexts(stack) ==
    {Whitespace} \cup
    (IF InExcludedElement(stack) THEN ExcludedTexts ELSE ContentTexts)

----------------------------------------------------------------------------
(* State *)

VARIABLES
    analyzer,   \* the ContentAnalyzer instance
    raised,     \* the exception that ended feed(), or "none"
    ndata,      \* text events fed so far
    html,       \* the document handed to feed() or _extract_enhanced, as its events
    pos,        \* SpecFeed: events of html consumed so far
    query,      \* SpecExtract: the query argument of _extract_enhanced
    traf,       \* SpecExtract: what trafilatura.extract does with html
    result,     \* SpecExtract: what _extract_enhanced returned or raised
    site,       \* SpecFetch: what the server of each URL of the batch does
    pc,         \* SpecFetch: where the fetch_and_extract task of each URL is
    out,        \* SpecFetch: what each finished task returned or raised
    phase,      \* SpecFetch: where fetch_pages is
    pages,      \* SpecFetch: the list fetch_pages returned
    stexts,     \* SpecScore: the two texts that are scored
    squery,     \* SpecScore: the query they are scored against
    scores,     \* SpecScore: what the two score functions returned
    instances,  \* SpecPair: the two ContentAnalyzer instances and what feed raised
    pdocs,      \* SpecPair: the document of each instance, as its events
    pfed,       \* SpecPair: events of its document each instance has handled
    einput,     \* SpecEnhancer: the result list post_search is called with
    eresults,   \* SpecEnhancer: result_container.results of result_enhancer
    ecalled,    \* SpecEnhancer: whether post_search has returned
    gquery,     \* SpecSuggest: search.search_query.query
    gtitles,    \* SpecSuggest: the titles of result_container.results
    gyear,      \* SpecSuggest: datetime.now().year
    gadded,     \* SpecSuggest: the texts handed to result_container.suggestions.add
    gcalled,    \* SpecSuggest: whether post_search has returned
    aplugin,    \* SpecAi: the AI plugin whose post_search is called
    aconfig,    \* SpecAi: OPENAI_API_KEY of that plugin's module
    aquery,     \* SpecAi: search.search_query.query
    aenv,       \* SpecAi: what the LLM endpoint and the page fetches do
    abefore,    \* SpecAi: result_container before the call
    acontainer, \* SpecAi: result_container
    acalls,     \* SpecAi: the LLM and page-fetch calls made so far
    astatus,    \* SpecAi: "idle", then "returned" or "raised"
    tplugin,    \* SpecStrip: the AI plugin whose _strip_trigger is called
    tquery,     \* SpecStrip: the argument of _strip_trigger
    tclean      \* SpecStrip: what _strip_trigger returned, None before the call

parserVars == <<analyzer, raised, ndata>>
feedVars == <<html, pos>>
extractVars == <<query, traf, result>>
fetchVars == <<site, pc, out, phase, pages>>
scoreVars == <<stexts, squery, scores>>
configVars == <<EXTRACT_MAX_CHARS>>
\* the configuration and the variables of the specifications of the other
\* functions and plugins
pairVars == <<instances, pdocs, pfed>>
enhVars == <<einput, eresults, ecalled>>
sugVars == <<gquery, gtitles, gyear, gadded, gcalled>>
aiVars == <<aplugin, aconfig, aquery, aenv, abefore, acontainer, acalls, astatus>>
stripVars == <<tplugin, tquery, tclean>>
pluginVars == <<enhVars, sugVars, aiVars, stripVars>>
restVars == <<configVars, scoreVars, pairVars, pluginVars>>
vars == <<analyzer, raised, ndata, html, pos, query, traf, result,
          site, pc, out, phase, pages, restVars>>

\* _extract_enhanced has not been called
Pending == [kind |-> "pending", text |-> <<>>, exc |-> "none"]

\* the state of the parts a specification does not use
ParserIdle == analyzer = NewAnalyzer /\ raised = "none" /\ ndata = 0
FeedIdle == html = <<>> /\ pos = 0
ExtractIdle == query = <<>> /\ traf = TrafNone /\ result = Pending
FetchIdle ==
    site = <<>> /\ pc = <<>> /\ out = <<>> /\ phase = "idle" /\ pages = <<>>
\* the score functions have not been called
NoScores == [called |-> FALSE, density |-> <<0, 0>>, relevance |-> <<0, 0>>]
ScoreIdle == stexts = <<>> /\ squery = <<>> /\ scores = NoScores
\* the module was loaded with the default configuration
DefaultConfig == EXTRACT_MAX_CHARS = DEFAULT_EXTRACT_MAX_CHARS
PairIdle == instances = <<>> /\ pdocs = <<>> /\ pfed = <<>>
EnhIdle == einput = <<>> /\ eresults = <<>> /\ ecalled = FALSE
SugIdle ==
    gquery = <<>> /\ gtitles = <<>> /\ gyear = 0 /\ gadded = <<>> /\ gcalled = FALSE
AiIdle ==
    /\ aplugin = "none" /\ aconfig = <<>> /\ aquery = <<>> /\ aenv = <<>>
    /\ abefore = <<>> /\ acontainer = <<>> /\ acalls = <<>> /\ astatus = "idle"
StripIdle == tplugin = "none" /\ tquery = <<>> /\ tclean = None
PluginIdle == EnhIdle /\ SugIdle /\ AiIdle /\ StripIdle
RestIdle == DefaultConfig /\ ScoreIdle /\ PairIdle /\ PluginIdle

----------------------------------------------------------------------------
(* Spec: one ContentAnalyzer fed the events of an arbitrary document *)

Init ==
    /\ analyzer = NewAnalyzer
    /\ raised = "none"
    /\ ndata = 0
    /\ FeedIdle
    /\ ExtractIdle
    /\ FetchIdle
    /\ RestIdle

\* html.parser calls handle_starttag
StartTag ==
    /\ raised = "none"
    /\ Len(analyzer.current_tag_stack) < MaxDepth
    /\ \E e \in StartTags :
          /\ analyzer' = HandleStartTag(analyzer, e.tag, e.attrs)
          /\ raised' = StartTagRaises(analyzer, e.tag, e.attrs)
    /\ UNCHANGED <<ndata, feedVars, extractVars, fetchVars, restVars>>

\* html.parser calls handle_endtag
EndTag ==
    /\ raised = "none"
    /\ \E tag \in ModelTags : analyzer' = HandleEndTag(analyzer, tag)
    /\ UNCHANGED <<raised, ndata, feedVars, extractVars, fetchVars, restVars>>

\* html.parser calls handle_data
Data ==
    /\ raised = "none"
    /\ ndata < MaxData
    /\ \E data \in DataTexts(analyzer.current_tag_stack) :
          analyzer' = HandleData(analyzer, data)
    /\ ndata' = ndata + 1
    /\ UNCHANGED <<raised, feedVars, extractVars, fetchVars, restVars>>

Next == StartTag \/ EndTag \/ Data

Spec == Init /\ [][Next]_vars

----------------------------------------------------------------------------
(* Claims about the parser, checked under Spec *)

\* C1 (as claimed): no emitted block contains text that was written inside
\* an element of EXCLUDED_TAGS (such text is made of the letter x).
C1_NoExcludedTextInBlocks ==
    \A i \in 1..Len(analyzer.content_blocks) :
        ~HasChar(analyzer.content_blocks[i], "x")

\* C9 (as claimed): a close tag whose tag is not on the tag stack leaves the
\* whole instance unchanged: stack, excluded_depth, in_excluded, accumulator
\* and emitted blocks.
C9_UnmatchedCloseIgnored ==
    [][\A tag \in ModelTags :
          ( /\ raised = "none"
            /\ ~OnStack(analyzer.current_tag_stack, tag)
            /\ analyzer' = HandleEndTag(analyzer, tag)
            /\ UNCHANGED <<raised, ndata>> )
          => analyzer' = analyzer]_vars

\* C10: in_excluded is true exactly when excluded_depth > 0, and
\* excluded_depth is never negative.
C10_ExclusionStateConsistent ==
    /\ analyzer.in_excluded <=> (analyzer.excluded_depth > 0)
    /\ analyzer.excluded_depth >= 0

\* C10 witness: after a block was emitted, an exclusion zone was entered
\* and a tag opened inside it
C10_Witness ==
    /\ analyzer.content_blocks # <<>>
    /\ analyzer.in_excluded
    /\ analyzer.excluded_depth = 2

----------------------------------------------------------------------------
(* SpecFeed: documents that consist of one content-bearing element whose   *)
(* content is text, fed event by event                                      *)

\* the text runs such an element holds (a comment between two runs makes
\* html.parser report them in separate handle_data calls)
SingleTexts ==
    {<<Run("a", 50)>>,
     <<Run("a", 51)>>,
     <<Run("a", 25)>>,
     <<Run(" ", 2), Run("a", 30), Run(".", 1), Run("a", 29), Run("\n", 1)>>,
     Whitespace}

SingleAttrs == {NoAttrs, IdMain, ClassNavTop, ClassNoValue}

RECURSIVE SeqsUpTo(_, _)
SeqsUpTo(S, n) ==
    IF n = 0 THEN {<<>>}
    ELSE LET shorter == SeqsUpTo(S, n - 1) IN
         shorter \cup {Append(q, x) : q \in shorter, x \in S}

DataEvents(texts) == [i \in 1..Len(texts) |-> DataEvent(texts[i])]

SingleTagDocs ==
    {<<StartEvent(tag, attrs)>> \o DataEvents(texts) \o <<EndEvent(tag)>> :
        tag \in CONTENT_TAGS, attrs \in SingleAttrs,
        texts \in SeqsUpTo(SingleTexts, MaxSingleRuns) \ {<<>>}}

InitFeed ==
    /\ analyzer = NewAnalyzer
    /\ raised = "none"
    /\ ndata = 0
    /\ html \in SingleTagDocs
    /\ pos = 0
    /\ ExtractIdle
    /\ FetchIdle
    /\ RestIdle

\* feed() hands the next event of the document to its handler
FeedEvent ==
    /\ raised = "none"
    /\ pos < Len(html)
    /\ analyzer' = Handle(analyzer, html[pos + 1])
    /\ raised' = HandleRaises(analyzer, html[pos + 1])
    /\ pos' = pos + 1
    /\ UNCHANGED <<ndata, html, extractVars, fetchVars, restVars>>

NextFeed == FeedEvent

SpecFeed == InitFeed /\ [][NextFeed]_vars

\* the texts of the document's data events, in order
RECURSIVE DirectRuns(_)
DirectRuns(events) ==
    IF events = <<>> THEN <<>>
    ELSE IF Head(events).type = "data"
    THEN <<Head(events).data>> \o DirectRuns(Tail(events))
    ELSE DirectRuns(Tail(events))

\* the element's direct text as written, trimmed
RECURSIVE CatAll(_)
CatAll(texts) == IF texts = <<>> THEN <<>> ELSE Cat(Head(texts), CatAll(Tail(texts)))

TrimmedDirectText(events) == Strip(CatAll(DirectRuns(events)))

\* the element's text runs, each trimmed, the empty ones dropped, joined by
\* single spaces
RECURSIVE TrimmedRuns(_)
TrimmedRuns(texts) ==
    IF texts = <<>> THEN <<>>
    ELSE IF Strip(Head(texts)) = <<>> THEN TrimmedRuns(Tail(texts))
    ELSE <<Strip(Head(texts))>> \o TrimmedRuns(Tail(texts))

RunsJoined(events) == Join(<<Run(" ", 1)>>, TrimmedRuns(DirectRuns(events)))

FedWhole == pos = Len(html) /\ raised = "none"

\* whether the element itself starts an exclusion zone by its class or id
IsExclusionRoot(events) ==
    AttrScan(Head(events).attrs, <<"class", "id">>) = "exclude"

----------------------------------------------------------------------------
(* SpecExtract: _extract_enhanced called on a document, a query and an      *)
(* answer of trafilatura.extract                                            *)

\* texts of the elements: a short one, a sentence of 60 characters, symbol
\* noise, and two long ones
TextShort == <<Run("a", 5), Run(".", 1)>>
TextSentence == <<Run("a", 3), Run(" ", 1), Run("a", 55), Run(".", 1)>>
TextNoise == <<Run("#", 60)>>
TextHalf == <<Run("a", 4500)>>
TextLong == <<Run("b", 8000)>>

Element(tag, attrs, text) ==
    <<StartEvent(tag, attrs), DataEvent(text), EndEvent(tag)>>

Elements ==
    {Element("p", NoAttrs, t) :
        t \in {TextShort, TextSentence, TextNoise, TextHalf, TextLong}}
    \cup {Element("nav", NoAttrs, <<Run("x", 60)>>),
          Element("div", ClassNoValue, TextSentence)}

RECURSIVE Flatten(_)
Flatten(seqs) == IF seqs = <<>> THEN <<>> ELSE Head(seqs) \o Flatten(Tail(seqs))

ExtractDocs == {Flatten(es) : es \in SeqsUpTo(Elements, MaxElems)}

Queries == {<<>>, <<Run("a", 3)>>}

Paragraphs(a, b) == Cat(a, Cat(NewLines2, b))

TrafOutcomes ==
    {TrafNone,
     TrafText(<<>>),
     TrafText(<<Run("a", 30)>>),
     TrafText(TextSentence),
     TrafText(<<Run("#", 150)>>),
     TrafText(Paragraphs(TextHalf, <<Run("b", 4500)>>)),
     TrafText(Paragraphs(TextLong, TextHalf)),
     TrafRaises("ValueError"),
     TrafRaises("KeyError")}

InitExtract ==
    /\ ParserIdle
    /\ pos = 0
    /\ html \in ExtractDocs
    /\ query \in Queries
    /\ traf \in TrafOutcomes
    /\ result = Pending
    /\ FetchIdle
    /\ RestIdle

\* the call _extract_enhanced(html, url, query), to its return or raise
ExtractCall ==
    /\ result = Pending
    /\ result' = ExtractEnhanced(html, query, traf)
    /\ UNCHANGED <<parserVars, feedVars, query, traf, fetchVars, restVars>>

NextExtract == ExtractCall

SpecExtract == InitExtract /\ [][NextExtract]_vars

\* C2 (as claimed): a returned text is never longer than the budget plus
\* one ellipsis character.
C2_WithinBudget ==
    result.kind = "text" => StrLen(result.text) <= EXTRACT_MAX_CHARS + 1

\* C6 (as claimed): _extract_enhanced never raises to its caller.
C6_NeverRaises == result.kind # "raise"

\* what feed() makes of the document
Blocks(events) == Feed(NewAnalyzer, events).self.content_blocks

\* C7: when strategy 1 ran to its end without a result (the document has
\* no block, or its blocks joined have at most 100 characters) and the
\* generic extractor returned nothing, the call returns None and raises
\* nothing.
C7_Strategy1Empty ==
    /\ Feed(NewAnalyzer, html).exc = "none"
    /\ \/ Blocks(html) = <<>>
       \/ StrLen(Join(NewLines2, Blocks(html))) <= 100

C7_ExtractorEmpty == traf = TrafNone \/ traf = TrafText(<<>>)

C7_BothFailGiveNone ==
    (result # Pending /\ C7_Strategy1Empty /\ C7_ExtractorEmpty)
        => result = ReturnNone

\* C7 witness: a non-empty document with a block of at most 100
\* characters, nothing from the extractor, and the call has returned
C7_Witness ==
    /\ result # Pending
    /\ C7_ExtractorEmpty
    /\ C7_Strategy1Empty
    /\ Blocks(html) # <<>>

\* C21 (as claimed): every text that _extract_enhanced returns, from
\* either strategy, has at least 100 characters; an extraction that cannot
\* reach 100 characters returns None.
C21_TextHasAtLeast100 ==
    result.kind = "text" => StrLen(result.text) >= MIN_RESULT_LEN

----------------------------------------------------------------------------
(* SpecFetch: fetch_pages on a batch of NumUrls URLs.  A task runs without  *)
(* interruption between two awaits, and fetch_and_extract awaits once, in   *)
(* client.get: a task is created, starts and suspends in the request, and   *)
(* resumes when its server has answered or the timeout has struck.          *)

TextArticle == <<Run("a", 3), Run(" ", 1), Run("a", 145), Run(".", 1)>>
TextDamaged ==
    <<Run("a", 3), Run(" ", 1), Run("a", 70), Run(INVALID_BYTE, 2),
      Run("a", 75), Run(".", 1)>>

BodyArticle ==
    Element("nav", NoAttrs, <<Run("x", 60)>>) \o Element("p", NoAttrs, TextArticle)
BodyDamaged == Element("p", NoAttrs, TextDamaged)
BodyShort == Element("p", NoAttrs, TextShort)
BodyNoValue == Element("div", ClassNoValue, TextArticle)
\* a body longer than FETCH_MAX_BYTES: the cut falls behind the start tag
\* of its second paragraph
BodyBig ==
    Element("p", NoAttrs, <<Run("a", FETCH_MAX_BYTES - 10)>>)
        \o Element("p", NoAttrs, <<Run("b", 100)>>)

\* the sites that answer: a 404, an article, an article with invalid
\* bytes, a page too short to extract, a page whose markup makes
\* handle_starttag raise, and a page longer than FETCH_MAX_BYTES
Site404 == SiteResponse(404, BodyShort, TrafNone)
SiteArticle == SiteResponse(200, BodyArticle, TrafNone)
SiteDamaged == SiteResponse(200, BodyDamaged, TrafNone)
SiteShort == SiteResponse(200, BodyShort, TrafNone)
SiteNoValue == SiteResponse(200, BodyNoValue, TrafNone)
SiteBig == SiteResponse(200, BodyBig, TrafNone)

Sites ==
    {SiteTimeout, SiteConnectError, Site404, SiteArticle, SiteDamaged,
     SiteShort, SiteNoValue, SiteBig}

Urls == 1..NumUrls

FetchQuery == <<Run("a", 3)>>

InitFetch ==
    /\ ParserIdle
    /\ FeedIdle
    /\ traf = TrafNone
    /\ result = Pending
    /\ query = FetchQuery
    /\ site \in [Urls -> Sites]
    /\ pc = [u \in Urls |-> "created"]
    /\ out = [u \in Urls |-> Pending]
    /\ phase = "gathering"
    /\ pages = <<>>
    /\ RestIdle

\* the event loop starts the task of u, which runs to await client.get
TaskStart(u) ==
    /\ phase = "gathering"
    /\ pc[u] = "created"
    /\ pc' = [pc EXCEPT ![u] = "waiting"]
    /\ UNCHANGED <<parserVars, feedVars, extractVars, site, out, phase, pages, restVars>>

\* client.get of u completes or raises, and the task runs to its end
TaskResume(u) ==
    /\ phase = "gathering"
    /\ pc[u] = "waiting"
    /\ out' = [out EXCEPT ![u] = FetchAndExtract(site[u], query)]
    /\ pc' = [pc EXCEPT ![u] = IF out'[u].kind = "raise" THEN "failed" ELSE "done"]
    /\ UNCHANGED <<parserVars, feedVars, extractVars, site, phase, pages, restVars>>

\* await asyncio.gather(...) ends: with the first exception a task raised,
\* or with all results, which fetch_pages filters and returns
GatherEnds ==
    /\ phase = "gathering"
    /\ IF \E u \in Urls : pc[u] = "failed"
       THEN /\ phase' = "raised"
            /\ pages' = <<>>
       ELSE /\ \A u \in Urls : pc[u] = "done"
            /\ phase' = "returned"
            /\ pages' = KeepTexts(out, 1)
    /\ UNCHANGED <<parserVars, feedVars, extractVars, site, pc, out, restVars>>

NextFetch ==
    \/ \E u \in Urls : TaskStart(u)
    \/ \E u \in Urls : TaskResume(u)
    \/ GatherEnds

SpecFetch == InitFetch /\ [][NextFetch]_vars

\* what fetch_and_extract gives for a URL fetched in a batch of its own
Alone(s) == FetchAndExtract(s, FetchQuery)

\* C3: whatever the other URLs of the batch do and however the tasks
\* interleave, no task fails, gather never ends with an exception, and the
\* outcome of every finished task is the one its own site gives when
\* fetched alone.
C3_OutcomesIndependent ==
    /\ phase # "raised"
    /\ \A u \in Urls :
        /\ pc[u] # "failed"
        /\ pc[u] = "done" => out[u] = Alone(site[u])
        /\ pc[u] # "done" => out[u] = Pending

\* C3 witness: fetch_pages has returned for a batch in which one URL timed
\* out, the extraction of another raised, and a third gave its article
C3_Witness ==
    /\ phase = "returned"
    /\ \E u, v, w \in Urls :
        /\ site[u] = SiteTimeout /\ out[u] = ReturnNone
        /\ site[v] = SiteNoValue /\ out[v] = ReturnNone
        /\ site[w] = SiteArticle /\ out[w] = ReturnText(TextArticle)

\* a site whose request or status raises
TransportOrStatusError(s) ==
    s.kind \in {"timeout", "connect"} \/ s.status < 200 \/ s.status > 299

\* a site whose body holds bytes that are not valid UTF-8
DecodeProblem(s) == s.kind = "response" /\ BodyHasInvalid(s.body)

\* a finished task returned (url, None) or (url, text), and raised nothing
ReturnedPair(u) == out[u].kind \in {"None", "text"} /\ out[u].exc = "none"

\* C4 (as claimed): every finished task returned a pair, and a transport
\* error, a timeout, a status that is not 2xx and a body with a decode
\* problem all gave (url, None).
C4_ErrorsAndDecodeGiveNone ==
    \A u \in Urls : pc[u] \in {"done", "failed"} =>
        /\ ReturnedPair(u)
        /\ (TransportOrStatusError(site[u]) \/ DecodeProblem(site[u]))
               => out[u] = ReturnNone

\* the site with the invalid bytes of its body left out
Cleaned(s) ==
    [s EXCEPT !.body =
        [i \in 1..Len(s.body) |->
            IF s.body[i].type = "data"
            THEN DataEvent(Norm(DropInvalid(s.body[i].data)))
            ELSE s.body[i]]]

\* C4 (amended): every finished task returned a pair; a transport error, a
\* timeout and a status that is not 2xx gave (url, None); a body with
\* invalid bytes is no failure: it gave what the body without those bytes
\* gives.
C4_ErrorsGiveNone ==
    \A u \in Urls : pc[u] \in {"done", "failed"} =>
        /\ ReturnedPair(u)
        /\ TransportOrStatusError(site[u]) => out[u] = ReturnNone
        /\ (DecodeProblem(site[u]) /\ ~TransportOrStatusError(site[u]))
               => out[u] = Alone(Cleaned(site[u]))

\* C4 witness: a transport error, a 404 and a body with invalid bytes have
\* all been handled, the last one giving the text without those bytes
C4_Witness ==
    \E t, e, d \in Urls :
        /\ site[t] \in {SiteTimeout, SiteConnectError} /\ out[t] = ReturnNone
        /\ site[e] = Site404 /\ out[e] = ReturnNone
        /\ site[d] = SiteDamaged /\ out[d] = ReturnText(TextArticle)

\* the URLs whose task gave a non-empty text
WithText == {u \in Urls : out[u].kind = "text" /\ out[u].text # <<>>}

\* C5: when fetch_pages has returned, every task of the batch is done, and
\* the list holds, in the order of the URLs and once each, exactly the URLs
\* whose task gave a non-empty text, each with that text; gather never
\* ended with an exception, so a batch in which every URL fails returned
\* the empty list.
C5_ReturnsTextsInOrder ==
    /\ phase # "raised"
    /\ phase = "returned" =>
        /\ \A u \in Urls : pc[u] = "done"
        /\ \A i \in 1..Len(pages) :
            /\ pages[i].url \in WithText
            /\ pages[i].text = out[pages[i].url].text
        /\ \A i, j \in 1..Len(pages) : i < j => pages[i].url < pages[j].url
        /\ \A u \in WithText : \E i \in 1..Len(pages) : pages[i].url = u
    /\ phase # "returned" => pages = <<>>

\* C5 witness: a timeout, a 404 and an article, in this order, gave exactly
\* one pair
C5_Witness ==
    /\ phase = "returned"
    /\ site[1] = SiteTimeout /\ site[2] = Site404 /\ site[3] = SiteArticle
    /\ Len(pages) = 1
    /\ pages[1] = [url |-> 3, text |-> TextArticle]

----------------------------------------------------------------------------
(* SpecScore: _calculate_content_density and _calculate_relevance_score     *)
(* called on two texts and a query                                          *)

\* t repeated n times
RECURSIVE Repeat(_, _)
Repeat(t, n) == IF n = 0 THEN <<>> ELSE Cat(t, Repeat(t, n - 1))

Word(c, n) == <<Run(c, n)>>
Space == <<Run(" ", 1)>>

\* "aaa bbb xxxx", "aaa.bbb xxxx" and "xxxx aaa bbb": the same length and
\* words, with and without the phrase "aaa bbb", the match early and late
TextPhrase == <<Run("a", 3), Run(" ", 1), Run("b", 3), Run(" ", 1), Run("x", 4)>>
TextNoPhrase == <<Run("a", 3), Run(".", 1), Run("b", 3), Run(" ", 1), Run("x", 4)>>
TextPhraseLate == <<Run("x", 4), Run(" ", 1), Run("a", 3), Run(" ", 1), Run("b", 3)>>
\* "aaa bbb" and "aaa.bbb" followed by thirteen words: the phrase with few
\* matches, no phrase with many matches, the phrase with many matches
TextPhraseFew == Cat(<<Run("a", 3), Run(" ", 1), Run("b", 3)>>,
                     Repeat(Cat(Space, Word("x", 3)), 13))
TextManyMatches == Cat(<<Run("a", 3), Run(".", 1), Run("b", 3)>>,
                       Repeat(Cat(Space, Word("a", 3)), 13))
TextPhraseMany == Cat(<<Run("a", 3), Run(" ", 1), Run("b", 3)>>,
                      Repeat(Cat(Space, Word("a", 3)), 13))
\* symbols only, whitespace only, sentence ends only, one long word, two
\* short words, upper case
TextSymbols == <<Run("#", 60)>>
TextSpaces == <<Run(" ", 3)>>
TextDots == <<Run(".", 60)>>
TextLongWord == <<Run("a", 8000)>>
TextShortWords == <<Run("a", 1), Run("b", 1), Run(" ", 1), Run("a", 1), Run("b", 1)>>
TextUpper == <<Run("A", 3), Run(" ", 1), Run("B", 3), Run("!", 1)>>

ScoreTexts ==
    {<<>>, TextPhrase, TextNoPhrase, TextPhraseLate, TextPhraseFew,
     TextManyMatches, TextPhraseMany, TextSymbols, TextSpaces, TextDots,
     TextLongWord, TextShortWords, TextUpper, TextSentence}

\* "", "aaa", "aaa bbb", "AAA Bbb", "ab", "a b" and "#"
ScoreQueries ==
    {<<>>,
     <<Run("a", 3)>>,
     <<Run("a", 3), Run(" ", 1), Run("b", 3)>>,
     <<Run("A", 3), Run(" ", 1), Run("B", 1), Run("b", 2)>>,
     <<Run("a", 1), Run("b", 1)>>,
     <<Run("a", 1), Run(" ", 1), Run("b", 1)>>,
     <<Run("#", 1)>>}

InitScore ==
    /\ ParserIdle
    /\ FeedIdle
    /\ ExtractIdle
    /\ FetchIdle
    /\ DefaultConfig
    /\ PairIdle
    /\ PluginIdle
    /\ stexts \in ScoreTexts \X ScoreTexts
    /\ squery \in ScoreQueries
    /\ scores = NoScores

\* both functions are called on both texts
ScoreCall ==
    /\ ~scores.called
    /\ scores' = [called |-> TRUE,
                  density |-> [i \in 1..2 |-> Density(stexts[i])],
                  relevance |-> [i \in 1..2 |-> Relevance(stexts[i], squery)]]
    /\ UNCHANGED <<parserVars, feedVars, extractVars, fetchVars, configVars,
                   pairVars, pluginVars, stexts, squery>>

NextScore == ScoreCall

SpecScore == InitScore /\ [][NextScore]_vars

\* C11: both functions return a value in [0,1] for every text and query,
\* also for the empty string and for strings made of symbols only.
C11_ScoresInUnitInterval ==
    scores.called =>
        \A i \in 1..2 :
            /\ 0 <= scores.density[i] /\ scores.density[i] <= SCALE
            /\ 0 <= scores.relevance[i] /\ scores.relevance[i] <= SCALE

\* C11 witness: a text of symbols and a text that has the phrase and many
\* matches have been scored against the query "aaa bbb", the second one
\* with the greatest relevance there is
C11_Witness ==
    /\ scores.called
    /\ stexts = <<TextSymbols, TextPhraseMany>>
    /\ scores.density[1] > 0
    /\ scores.relevance[2] = SCALE

\* whether the query has a word of more than 2 characters
HasLongToken(q) ==
    LET words == FindWords(LowerText(q)) IN
    \E i \in 1..Len(words) : StrLen(words[i]) > 2

\* C12: the density of the empty text is exactly 0, and the relevance is
\* exactly 0 when the text is empty, the query is empty or the query has no
\* word of more than 2 characters.
C12_ZeroOnEmptyInputs ==
    scores.called =>
        \A i \in 1..2 :
            /\ stexts[i] = <<>> => scores.density[i] = 0
            /\ (stexts[i] = <<>> \/ squery = <<>> \/ ~HasLongToken(squery))
                   => scores.relevance[i] = 0

\* C12 witness: the empty text and the text "ab ab" have been scored
\* against the query "ab", whose only word is too short
C12_Witness ==
    /\ scores.called
    /\ stexts = <<<<>>, TextShortWords>>
    /\ squery = <<Run("a", 1), Run("b", 1)>>
    /\ scores.density[2] > 0

\* the character at offset k (from 0) of a text
RECURSIVE CharAt(_, _)
CharAt(t, k) == IF k < Head(t).n THEN Head(t).c ELSE CharAt(Tail(t), k - Head(t).n)

\* whether p stands in t at offset o, character by character
StandsAt(t, p, o) ==
    /\ o + StrLen(p) <= StrLen(t)
    /\ \A k \in 0..(StrLen(p) - 1) : CharAt(t, o + k) = CharAt(p, k)

\* the offsets at which p stands in t
Offsets(t, p) == {o \in 0..StrLen(t) : StandsAt(t, p, o)}

\* whether the text holds the lower-cased query verbatim
HasPhrase(t, q) == Offsets(LowerText(t), LowerText(q)) # {}

\* the offsets at which a query term stands in the lower-cased text
TermOffsets(t, q) ==
    UNION {Offsets(LowerText(t), term) : term \in QueryTerms(q)}

\* the words of the text that are query terms
TermMatches(t, q) ==
    LET words == FindWords(LowerText(t)) IN
    Cardinality({i \in 1..Len(words) : words[i] \in QueryTerms(q)})

\* the offset of the earliest term match, the length of the text when
\* there is none
FirstMatch(t, q) ==
    LET offsets == TermOffsets(t, q) IN
    IF offsets = {} THEN StrLen(t)
    ELSE CHOOSE m \in offsets : \A o \in offsets : m <= o

\* both texts have a term match, the earliest at the same offset
SameFirstMatch ==
    /\ FirstMatch(stexts[1], squery) < StrLen(stexts[1])
    /\ FirstMatch(stexts[2], squery) < StrLen(stexts[2])
    /\ FirstMatch(stexts[1], squery) = FirstMatch(stexts[2], squery)

SameLength == StrLen(stexts[1]) = StrLen(stexts[2])

\* the first text holds the phrase and the second does not
OnlyFirstHasPhrase == HasPhrase(stexts[1], squery) /\ ~HasPhrase(stexts[2], squery)

\* C13 (as claimed): of two texts of equal length whose earliest term match
\* is at the same offset, the one that holds the query verbatim scores
\* strictly higher than the one that does not.
C13_PhraseScoresHigher ==
    (scores.called /\ SameLength /\ SameFirstMatch /\ OnlyFirstHasPhrase)
        => scores.relevance[1] > scores.relevance[2]

\* C13 (amended): the same, for two texts that also have the same number
\* of words that are query terms.
C13_PhraseScoresHigherAtEqualCounts ==
    (/\ scores.called /\ SameLength /\ SameFirstMatch /\ OnlyFirstHasPhrase
     /\ TermMatches(stexts[1], squery) = TermMatches(stexts[2], squery))
        => scores.relevance[1] > scores.relevance[2]

\* C13 witness: "aaa bbb xxxx" and "aaa.bbb xxxx" have been scored against
\* "aaa bbb", and the first scores higher
C13_Witness ==
    /\ scores.called
    /\ stexts = <<TextPhrase, TextNoPhrase>>
    /\ squery = <<Run("a", 3), Run(" ", 1), Run("b", 3)>>
    /\ SameLength /\ SameFirstMatch /\ OnlyFirstHasPhrase
    /\ TermMatches(stexts[1], squery) = TermMatches(stexts[2], squery)
    /\ scores.relevance[1] > scores.relevance[2]

\* C14: of two texts of the same length, the same number of words that are
\* query terms and the same phrase presence, the one whose first term
\* match is not later scores at least as high.
C14_EarlierMatchScoresNoLower ==
    (/\ scores.called /\ SameLength
     /\ TermMatches(stexts[1], squery) = TermMatches(stexts[2], squery)
     /\ HasPhrase(stexts[1], squery) = HasPhrase(stexts[2], squery)
     /\ FirstMatch(stexts[1], squery) <= FirstMatch(stexts[2], squery))
        => scores.relevance[1] >= scores.relevance[2]

\* C14 witness: "aaa bbb xxxx" and "xxxx aaa bbb" have been scored against
\* "aaa bbb": the match at offset 0 scores higher than the match at 5
C14_Witness ==
    /\ scores.called
    /\ stexts = <<TextPhrase, TextPhraseLate>>
    /\ squery = <<Run("a", 3), Run(" ", 1), Run("b", 3)>>
    /\ FirstMatch(stexts[1], squery) = 0
    /\ FirstMatch(stexts[2], squery) = 5
    /\ scores.relevance[1] > scores.relevance[2]

----------------------------------------------------------------------------
(* SpecBudget: _extract_enhanced in a module loaded with a character budget *)
(* that is negative or small                                                *)

Budgets == {-200, -1, 0, 300}

\* what trafilatura.extract returns here: nothing, a text of 150 characters
\* and two paragraphs of 150 and 60
BudgetTrafOutcomes ==
    {TrafNone,
     TrafText(TextArticle),
     TrafText(Paragraphs(TextArticle, <<Run("b", 60)>>))}

BudgetDocs ==
    {Flatten(es) : es \in SeqsUpTo({Element("p", NoAttrs, TextShort),
                                    Element("p", NoAttrs, TextArticle),
                                    Element("p", NoAttrs, TextHalf)}, MaxElems)}

InitBudget ==
    /\ ParserIdle
    /\ pos = 0
    /\ html \in BudgetDocs
    /\ query = FetchQuery
    /\ traf \in BudgetTrafOutcomes
    /\ result = Pending
    /\ FetchIdle
    /\ EXTRACT_MAX_CHARS \in Budgets
    /\ ScoreIdle
    /\ PairIdle
    /\ PluginIdle

\* the call _extract_enhanced(html, url, query) under that budget
BudgetCall == ExtractCall

SpecBudget == InitBudget /\ [][BudgetCall]_vars

\* C15 (as claimed): with a negative budget the call ends with an error:
\* it returns neither a text nor None.
C15_NegativeBudgetRaises ==
    (result # Pending /\ EXTRACT_MAX_CHARS < 0) => result.kind = "raise"

----------------------------------------------------------------------------
(* SpecPair: two ContentAnalyzer instances, each fed the events of its own  *)
(* document, the events of the two documents arriving in any interleaving   *)

MaxPairElems == 2

\* an article paragraph, a navigation bar, a paragraph inside a div with
\* text of its own
PairElements ==
    {Element("p", NoAttrs, TextSentence),
     Element("nav", NoAttrs, <<Run("x", 60)>>),
     <<StartEvent("div", NoAttrs), DataEvent(<<Run("b", 60)>>)>>
        \o Element("p", NoAttrs, TextSentence) \o <<EndEvent("div")>>}

PairDocs == {Flatten(es) : es \in SeqsUpTo(PairElements, MaxPairElems)}

\* ContentAnalyzer(): a new instance, on which feed has raised nothing
NewInstance == [self |-> NewAnalyzer, exc |-> "none"]

InitPair ==
    /\ ParserIdle
    /\ FeedIdle
    /\ ExtractIdle
    /\ FetchIdle
    /\ DefaultConfig
    /\ ScoreIdle
    /\ PluginIdle
    /\ instances = [i \in 1..2 |-> NewInstance]
    /\ pdocs \in [1..2 -> PairDocs]
    /\ pfed = [i \in 1..2 |-> 0]

\* the handler of instance i with every attribute shared by the instances
\* (attributes of the class instead of the instance)
HandleOn_SharedState(all, i, e) ==
    [j \in 1..2 |-> [self |-> Handle(all[i].self, e),
                     exc |-> IF j = i THEN HandleRaises(all[i].self, e) ELSE all[j].exc]]

\* html.parser calls the handler of instance i for one event: the
\* attributes it reads and writes are those __init__ gave this instance
HandleOn(all, i, e) ==
    [all EXCEPT ![i] = [self |-> Handle(all[i].self, e),
                        exc |-> HandleRaises(all[i].self, e)]]

\* instance i handles the next event of its document
PairFeed(i) ==
    /\ pfed[i] < Len(pdocs[i])
    /\ instances[i].exc = "none"
    /\ instances' = HandleOn(instances, i, pdocs[i][pfed[i] + 1])
    /\ pfed' = [pfed EXCEPT ![i] = @ + 1]
    /\ UNCHANGED <<parserVars, feedVars, extractVars, fetchVars, configVars,
                   scoreVars, pluginVars, pdocs>>

NextPair == \E i \in 1..2 : PairFeed(i)

SpecPair == InitPair /\ [][NextPair]_vars

\* C16: at every point of every interleaving, each instance holds exactly
\* the blocks (and the rest of the state) it holds after the same events of
\* its document when fed alone.
C16_InstancesIndependent ==
    \A i \in 1..2 :
        instances[i] = Feed(NewAnalyzer, SubSeq(pdocs[i], 1, pfed[i]))

\* C16 witness: both documents are handled to the end, the events
\* interleaved, and the two instances hold different blocks
C16_Witness ==
    /\ \A i \in 1..2 : pfed[i] = Len(pdocs[i])
    /\ pdocs[1] = Element("p", NoAttrs, TextSentence)
    /\ instances[1].self.content_blocks = <<TextSentence>>
    /\ Len(pdocs[2]) > 3
    /\ instances[2].self.content_blocks =
           <<Cat(<<Run("b", 60), Run(" ", 1)>>, TextSentence)>>


----------------------------------------------------------------------------
(* result_enhancer: plain-string helpers *)

\* s + t for two texts in canonical encoding: only the runs that meet can
\* merge
Concat(s, t) ==
    IF s = <<>> THEN t
    ELSE IF t = <<>> THEN s
    ELSE IF s[Len(s)].c = t[1].c
    THEN SubSeq(s, 1, Len(s) - 1) \o <<Run(t[1].c, s[Len(s)].n + t[1].n)>> \o Tail(t)
    ELSE s \o t

\* a plain string as a text, half by half
RECURSIVE FromChars(_)
FromChars(s) ==
    IF s = <<>> THEN <<>>
    ELSE IF Len(s) = 1 THEN <<Run(s[1], 1)>>
    ELSE Concat(FromChars(SubSeq(s, 1, Len(s) \div 2)),
                FromChars(SubSeq(s, (Len(s) \div 2) + 1, Len(s))))

\* the places of s that hold a character other than whitespace
Inked(s) == {i \in 1..Len(s) : ~IsSpace(s[i])}

\* s.strip(), for plain strings: from the first to the last such place
StripChars(s) ==
    IF Inked(s) = {} THEN <<>>
    ELSE SubSeq(s, CHOOSE i \in Inked(s) : \A j \in Inked(s) : i <= j,
                CHOOSE i \in Inked(s) : \A j \in Inked(s) : j <= i)

\* s[i:], i counted from 0
Drop(s, i) == SubSeq(s, i + 1, Len(s))

\* s.replace("", new): new before every character and at the end
RECURSIVE ReplaceEmpty(_, _)
ReplaceEmpty(s, new) ==
    IF s = <<>> THEN new
    ELSE new \o <<Head(s)>> \o ReplaceEmpty(Tail(s), new)

\* s.find(old) counted from 1, 0 when old does not occur
FirstOccurrenceAt(s, old) ==
    IF ~Contains(s, old) THEN 0
    ELSE CHOOSE i \in 1..Len(s) :
             /\ IsPrefixAt(old, s, i)
             /\ \A j \in 1..(i - 1) : ~IsPrefixAt(old, s, j)

\* s.replace(old, new): one pass from the left over the non-overlapping
\* occurrences of old; what a replacement produces is not searched again
RECURSIVE ReplaceFrom(_, _, _)
ReplaceFrom(s, old, new) ==
    IF FirstOccurrenceAt(s, old) = 0 THEN s
    ELSE SubSeq(s, 1, FirstOccurrenceAt(s, old) - 1) \o new
         \o ReplaceFrom(Drop(s, FirstOccurrenceAt(s, old) - 1 + Len(old)), old, new)

Replace(s, old, new) ==
    IF old = <<>> THEN ReplaceEmpty(s, new) ELSE ReplaceFrom(s, old, new)

\* str(n) for n >= 0
DecimalDigits == <<"0", "1", "2", "3", "4", "5", "6", "7", "8", "9">>

RECURSIVE Str(_)
Str(n) ==
    IF n < 10 THEN <<DecimalDigits[n + 1]>>
    ELSE Str(n \div 10) \o <<DecimalDigits[(n % 10) + 1]>>

\* not x, for a plain string or None
Falsy(x) == x = None \/ x = <<>>

\* a content attribute: None or a text
NoContent == [none |-> TRUE, text |-> <<>>]
Content(t) == [none |-> FALSE, text |-> t]

\* not content
NoText(content) == content.none \/ content.text = <<>>

----------------------------------------------------------------------------
(* result_enhancer: urlparse(url).netloc *)

IsSchemeChar(c) ==
    \/ \E i \in 1..26 : c = UpperCase[i] \/ c = LowerCase[i]
    \/ \E i \in 1..10 : c = DecimalDigits[i]
    \/ c \in {"+", "-", "."}

IsLetter(c) == \E i \in 1..26 : c = UpperCase[i] \/ c = LowerCase[i]

\* the length of "scheme:" at the start of url, 0 when url has no scheme
SchemeLen(url) ==
    IF \E i \in 2..Len(url) :
           /\ url[i] = ":"
           /\ IsLetter(url[1])
           /\ \A j \in 1..(i - 1) : IsSchemeChar(url[j])
    THEN CHOOSE i \in 2..Len(url) :
           /\ url[i] = ":"
           /\ \A j \in 1..(i - 1) : IsSchemeChar(url[j])
    ELSE 0

\* the characters of s before the first one of the set stops
UpTo(s, stops) ==
    SubSeq(s, 1, Cardinality({i \in 1..Len(s) : \A j \in 1..i : s[j] \notin stops}))

\* the characters of s before the first of "/", "?" and "#"
UpToDelimiter(s) == UpTo(s, {"/", "?", "#"})

\* what follows "//" after the scheme, up to the path, query or fragment
Netloc(url) ==
    LET rest == Drop(url, SchemeLen(url)) IN
    IF IsPrefixAt(<<"/", "/">>, rest, 1) THEN UpToDelimiter(Drop(rest, 2))
    ELSE <<>>


----------------------------------------------------------------------------
(* result_enhancer: content types *)

\* any(pattern in s for pattern in patterns)
ContainsAny(s, patterns) == \E p \in patterns : Contains(s, p)

IsDigit(c) == \E i \in 1..10 : c = DecimalDigits[i]

\* re.search(r'\.com/\d{4}/\d{2}/', s)
HasDatePath(s) ==
    \E i \in 1..Len(s) :
        /\ i + 12 <= Len(s)
        /\ IsPrefixAt(<<".", "c", "o", "m", "/">>, s, i)
        /\ \A j \in 5..8 : IsDigit(s[i + j])
        /\ s[i + 9] = "/"
        /\ \A j \in 10..11 : IsDigit(s[i + j])
        /\ s[i + 12] = "/"

\* the patterns of _is_documentation: r'docs?\.' matches "doc." and "docs."
DOC_PATTERNS ==
    {<<"d", "o", "c", ".">>,
     <<"d", "o", "c", "s", ".">>,
     <<"/", "d", "o", "c", "u", "m", "e", "n", "t", "a", "t", "i", "o", "n">>,
     <<"/", "m", "a", "n", "u", "a", "l">>,
     <<"/", "g", "u", "i", "d", "e">>,
     <<"r", "e", "a", "d", "t", "h", "e", "d", "o", "c", "s">>,
     <<"/", "a", "p", "i">>,
     <<"/", "r", "e", "f", "e", "r", "e", "n", "c", "e">>}

CODE_DOMAINS ==
    {<<"g", "i", "t", "h", "u", "b", ".", "c", "o", "m">>,
     <<"g", "i", "t", "l", "a", "b", ".", "c", "o", "m">>,
     <<"b", "i", "t", "b", "u", "c", "k", "e", "t", ".", "o", "r", "g">>}

VIDEO_DOMAINS ==
    {<<"y", "o", "u", "t", "u", "b", "e", ".", "c", "o", "m">>,
     <<"v", "i", "m", "e", "o", ".", "c", "o", "m">>,
     <<"y", "o", "u", "t", "u", ".", "b", "e">>}

ACADEMIC_DOMAINS ==
    {<<"a", "r", "x", "i", "v", ".", "o", "r", "g">>,
     <<"s", "c", "h", "o", "l", "a", "r", ".", "g", "o", "o", "g", "l", "e">>,
     <<"i", "e", "e", "e", ".", "o", "r", "g">>,
     <<"a", "c", "m", ".", "o", "r", "g">>,
     <<"s", "p", "r", "i", "n", "g", "e", "r", ".", "c", "o", "m">>}

NEWS_PATTERNS ==
    {<<"/", "n", "e", "w", "s", "/">>,
     <<"/", "a", "r", "t", "i", "c", "l", "e", "/">>}

IsDocumentation(url) == ContainsAny(Lower(url), DOC_PATTERNS)
IsCodeRepository(url) == ContainsAny(Lower(url), CODE_DOMAINS)
IsVideo(url) == ContainsAny(Lower(url), VIDEO_DOMAINS)
IsAcademic(url) == ContainsAny(Lower(url), ACADEMIC_DOMAINS)
IsNews(url) == ContainsAny(Lower(url), NEWS_PATTERNS) \/ HasDatePath(Lower(url))

\* the characters the indicators start with
GLOBE == "U+1F310"
BOOKS == "U+1F4DA"
LAPTOP == "U+1F4BB"
CAMERA == "U+1F3A5"
GRADUATION_CAP == "U+1F393"
NEWSPAPER == "U+1F4F0"
STOPWATCH == "U+23F1"
VARIATION_SELECTOR == "U+FE0F"

\* the indicator of the first content type that matches, in the order of
\* the elif chain; no indicator when none matches
ContentType(url) ==
    IF IsDocumentation(url) THEN <<<<BOOKS, " ">> \o <<"D", "o", "c", "u", "m", "e", "n", "t", "a", "t", "i", "o", "n">>>>
    ELSE IF IsCodeRepository(url) THEN <<<<LAPTOP, " ">> \o <<"C", "o", "d", "e", " ", "R", "e", "p", "o", "s", "i", "t", "o", "r", "y">>>>
    ELSE IF IsVideo(url) THEN <<<<CAMERA, " ">> \o <<"V", "i", "d", "e", "o">>>>
    ELSE IF IsAcademic(url) THEN <<<<GRADUATION_CAP, " ">> \o <<"A", "c", "a", "d", "e", "m", "i", "c">>>>
    ELSE IF IsNews(url) THEN <<<<NEWSPAPER, " ">> \o <<"N", "e", "w", "s">>>>
    ELSE <<>>


----------------------------------------------------------------------------
(* result_enhancer: post_search *)

\* sep.join(parts), for plain strings
RECURSIVE JoinChars(_, _)
JoinChars(sep, parts) ==
    IF parts = <<>> THEN <<>>
    ELSE IF Len(parts) = 1 THEN Head(parts)
    ELSE Head(parts) \o sep \o JoinChars(sep, Tail(parts))

\* the domain indicator: netloc without every "www."
DomainIndicator(url) ==
    IF Netloc(url) = <<>> THEN <<>>
    ELSE <<<<GLOBE, " ">> \o Replace(Netloc(url), <<"w", "w", "w", ".">>, <<>>)>>

WORDS_PER_MINUTE == 200
MIN_WORDS == 50

Max(a, b) == IF a >= b THEN a ELSE b

\* len(content.split()): the places where a word starts
WordCount(t) ==
    Cardinality({i \in 1..Len(t) :
                    /\ ~IsSpace(t[i].c)
                    /\ (i = 1 \/ IsSpace(t[i - 1].c))})

\* the reading time indicator of a content of more than 50 words
ReadingTime(content) ==
    IF NoText(content) \/ WordCount(content.text) <= MIN_WORDS THEN <<>>
    ELSE <<<<STOPWATCH, VARIATION_SELECTOR, " ">>
           \o Str(Max(1, WordCount(content.text) \div WORDS_PER_MINUTE))
           \o <<" ", "m", "i", "n", " ", "r", "e", "a", "d">>>>

Enhancements(r) == DomainIndicator(r.url) \o ContentType(r.url) \o ReadingTime(r.content)

\* result.content after lines 85-90
EnhancedContent(content, enhancements) ==
    IF enhancements = <<>> THEN content
    ELSE LET tag == FromChars(<<"[">> \o JoinChars(<<" ", "|", " ">>, enhancements)
                              \o <<"]">>) IN
         IF NoText(content) THEN Content(tag)
         ELSE Content(Concat(tag, Concat(<<Run("\n", 1)>>, content.text)))

Enhance(r) == [r EXCEPT !.content = EnhancedContent(r.content, Enhancements(r))]

\* title.lower().strip()
TitleLower(title) == StripChars(Lower(title))

MIN_TITLE_LEN == 10

\* the duplicate test with the URL rule alone
Skipped_UrlOnly(r, seen_urls, seen_titles) ==
    \/ Falsy(r.url)
    \/ r.url \in seen_urls

\* the three continue statements of the loop (lines 41-51)
Skipped(r, seen_urls, seen_titles) ==
    \/ Falsy(r.url)
    \/ r.url \in seen_urls
    \/ /\ TitleLower(r.title) \in seen_titles
       /\ Len(TitleLower(r.title)) > MIN_TITLE_LEN

\* the loop of lines 36-92 over what is left of the list
RECURSIVE EnhanceLoop(_, _, _, _)
EnhanceLoop(rest, seen_urls, seen_titles, enhanced_results) ==
    IF rest = <<>> THEN enhanced_results
    ELSE IF Skipped(Head(rest), seen_urls, seen_titles)
    THEN EnhanceLoop(Tail(rest), seen_urls, seen_titles, enhanced_results)
    ELSE EnhanceLoop(Tail(rest),
                     seen_urls \cup {Head(rest).url},
                     seen_titles \cup {TitleLower(Head(rest).title)},
                     Append(enhanced_results, Enhance(Head(rest))))

\* result_container.results when post_search returns
EnhancerPostSearch(results) ==
    IF results = <<>> THEN results
    ELSE EnhanceLoop(results, {}, {}, <<>>)


----------------------------------------------------------------------------
(* SpecEnhancer: result_enhancer.post_search on an arbitrary result list *)

MaxResults == 3

UrlA == <<"h", "t", "t", "p", ":", "/", "/", "a", ".", "i", "o", "/", "x">>
UrlB == <<"h", "t", "t", "p", ":", "/", "/", "w", "w", "w", ".", "b", ".", "i", "o", "/", "a", "p", "i">>
UrlRepo == <<"H", "T", "T", "P", ":", "/", "/", "G", "i", "t", "H", "u", "b", ".", "c", "o", "m", "/", "a">>
UrlDated == <<"x", ".", "c", "o", "m", "/", "2", "0", "2", "4", "/", "0", "1", "/">>
UrlVideo == <<"h", "t", "t", "p", "s", ":", "/", "/", "y", "o", "u", "t", "u", ".", "b", "e", "/", "v">>
UrlPaper == <<"/", "/", "a", "r", "x", "i", "v", ".", "o", "r", "g", "/", "a">>

\* twelve characters; the second differs in case and surrounding blanks
TitleLong == <<"H", "e", "l", "l", "o", " ", "W", "o", "r", "l", "d", "!">>
TitleLongVariant == <<" ", "h", "e", "l", "l", "o", " ", "W", "O", "R", "L", "D", "!", " ">>
\* five characters
TitleShort == <<"O", "t", "h", "e", "r">>
TitleShortVariant == <<"O", "T", "H", "E", "R">>

ContentShort == Content(Word("a", 3))
\* sixty words
ContentLong == Content([i \in 1..120 |-> IF i % 2 = 1 THEN Run("a", 1) ELSE Run(" ", 1)])

Result(url, title, content) == [url |-> url, title |-> title, content |-> content]

EnhancerResults ==
    {Result(UrlA, TitleLong, NoContent),
     Result(UrlB, TitleLongVariant, ContentShort),
     Result(UrlB, TitleShort, ContentLong),
     Result(UrlA, TitleShort, Content(<<>>)),
     Result(None, TitleLong, ContentShort),
     Result(<<>>, TitleShort, NoContent),
     Result(UrlRepo, TitleShortVariant, NoContent),
     Result(UrlDated, TitleShort, ContentShort),
     Result(UrlVideo, TitleLongVariant, Content(<<>>)),
     Result(UrlPaper, TitleShortVariant, ContentLong)}

\* the result objects of a list: id is the place of the object in the list
WithIds(rs) ==
    [i \in 1..Len(rs) |->
        [id |-> i, url |-> rs[i].url, title |-> rs[i].title, content |-> rs[i].content]]

ResultLists ==
    {WithIds(rs) : rs \in UNION {[1..n -> EnhancerResults] : n \in 0..MaxResults}}

InitEnhancer ==
    /\ ParserIdle
    /\ FeedIdle
    /\ ExtractIdle
    /\ FetchIdle
    /\ DefaultConfig
    /\ ScoreIdle
    /\ PairIdle
    /\ SugIdle
    /\ AiIdle
    /\ StripIdle
    /\ einput \in ResultLists
    /\ eresults = einput
    /\ ecalled = FALSE

\* the call post_search(request, search, result_container)
EnhancerCall ==
    /\ ~ecalled
    /\ eresults' = EnhancerPostSearch(eresults)
    /\ ecalled' = TRUE
    /\ UNCHANGED <<parserVars, feedVars, extractVars, fetchVars, configVars,
                   scoreVars, pairVars, sugVars, aiVars, stripVars, einput>>

NextEnhancer == EnhancerCall

SpecEnhancer == InitEnhancer /\ [][NextEnhancer]_vars


\* the places in the original list of the results that were kept
KeptIds == {eresults[k].id : k \in 1..Len(eresults)}

HasUrl(r) == ~Falsy(r.url)

NoDuplicateUrl ==
    \A i, j \in 1..Len(eresults) : i # j => eresults[i].url # eresults[j].url

NoResultWithoutUrl == \A k \in 1..Len(eresults) : HasUrl(eresults[k])

\* the kept results are objects of the original list, in their order
IsSubsequence ==
    /\ \A k \in 1..Len(eresults) :
          /\ eresults[k].id \in 1..Len(einput)
          /\ eresults[k].url = einput[eresults[k].id].url
          /\ eresults[k].title = einput[eresults[k].id].title
    /\ \A k \in 1..(Len(eresults) - 1) : eresults[k].id < eresults[k + 1].id

\* result i is the first of the original list with its URL
FirstOccurrence(i) ==
    /\ HasUrl(einput[i])
    /\ \A j \in 1..(i - 1) : einput[j].url # einput[i].url

\* results i and j have the same title up to case and surrounding blanks,
\* and it is longer than 10 characters
SameLongTitle(i, j) ==
    /\ StripChars(Lower(einput[i].title)) = StripChars(Lower(einput[j].title))
    /\ Len(StripChars(Lower(einput[i].title))) > 10

\* C17 as stated: after post_search on a non-empty list, results has no two
\* results with the same URL and none without a URL, and is the
\* subsequence of the original list made of the first occurrence of each URL.
C17_FirstOccurrenceOfEachUrlKept ==
    (ecalled /\ einput # <<>>) =>
        /\ NoDuplicateUrl
        /\ NoResultWithoutUrl
        /\ IsSubsequence
        /\ KeptIds = {i \in 1..Len(einput) : FirstOccurrence(i)}

\* C17, amended: after post_search on a non-empty list, results has no two
\* results with the same URL and none without a URL, and is a subsequence of
\* the original list in the original order; a result with a URL is kept
\* exactly when no earlier kept result has its URL or has its title (up to
\* case and surrounding blanks) when that title is longer than 10 characters.
C17_NoDuplicateUrlOrLongTitle ==
    (ecalled /\ einput # <<>>) =>
        /\ NoDuplicateUrl
        /\ NoResultWithoutUrl
        /\ IsSubsequence
        /\ \A i \in 1..Len(einput) :
              i \in KeptIds <=>
                  /\ HasUrl(einput[i])
                  /\ \A j \in KeptIds :
                        j < i => /\ einput[j].url # einput[i].url
                                 /\ ~SameLongTitle(i, j)

\* the first occurrence of UrlB is dropped for its title and the second,
\* under another title, is kept
C17_Witness ==
    /\ ecalled
    /\ Len(einput) = 3
    /\ einput[1].url = UrlA /\ einput[1].title = TitleLong
    /\ einput[2].url = UrlB /\ einput[2].title = TitleLongVariant
    /\ einput[3].url = UrlB /\ einput[3].title = TitleShort
    /\ Len(eresults) = 2
    /\ eresults[1].id = 1
    /\ eresults[2].id = 3


----------------------------------------------------------------------------
(* smart_suggestions: strings *)

UpperChar(c) ==
    IF \E i \in 1..26 : LowerCase[i] = c
    THEN UpperCase[CHOOSE i \in 1..26 : LowerCase[i] = c]
    ELSE c

\* s.title(): a letter is upper-cased when the character before it is not a
\* letter, and lower-cased otherwise
Title(s) ==
    [i \in 1..Len(s) |->
        IF i > 1 /\ IsLetter(s[i - 1]) THEN LowerChar(s[i]) ELSE UpperChar(s[i])]

\* the places of s where a stretch of characters that satisfy P starts
StretchStarts(s, P(_)) ==
    {i \in 1..Len(s) : P(s[i]) /\ (i = 1 \/ ~P(s[i - 1]))}

\* the place where the stretch that starts at i ends
StretchEnd(s, P(_), i) ==
    CHOOSE j \in i..Len(s) :
        /\ \A k \in i..j : P(s[k])
        /\ (j = Len(s) \/ ~P(s[j + 1]))

\* the k-th smallest element of a set of numbers
Nth(set, k) == CHOOSE i \in set : Cardinality({j \in set : j <= i}) = k

\* the maximal stretches of s whose characters satisfy P, in order
CharStretches(s, P(_)) ==
    [k \in 1..Cardinality(StretchStarts(s, P)) |->
        SubSeq(s, Nth(StretchStarts(s, P), k),
               StretchEnd(s, P, Nth(StretchStarts(s, P), k)))]

\* s.split()
SplitChars(s) == CharStretches(s, NotSpace)

\* \w
IsWordCharacter(c) == IsLetter(c) \/ IsDigit(c) \/ c = "_"

MIN_WORD_LEN == 4

\* re.findall(r'\b\w{4,}\b', s)
FindLongWords(s) ==
    SelectSeq(CharStretches(s, IsWordCharacter), LAMBDA w : Len(w) >= MIN_WORD_LEN)

Range(f) == {f[i] : i \in DOMAIN f}

\* a + " " + b
Spaced(a, b) == a \o <<" ">> \o b

----------------------------------------------------------------------------
(* smart_suggestions: class constants *)

REFINEMENTS ==
    <<[pattern |-> <<"h", "o", "w", " ", "t", "o">>,
       refinements |-> <<<<"t", "u", "t", "o", "r", "i", "a", "l">>, <<"g", "u", "i", "d", "e">>, <<"s", "t", "e", "p", " ", "b", "y", " ", "s", "t", "e", "p">>, <<"l", "e", "a", "r", "n">>>>],
      [pattern |-> <<"w", "h", "a", "t", " ", "i", "s">>,
       refinements |-> <<<<"d", "e", "f", "i", "n", "i", "t", "i", "o", "n">>, <<"e", "x", "p", "l", "a", "i", "n", "e", "d">>, <<"m", "e", "a", "n", "i", "n", "g">>, <<"o", "v", "e", "r", "v", "i", "e", "w">>>>],
      [pattern |-> <<"b", "e", "s", "t">>,
       refinements |-> <<<<"t", "o", "p">>, <<"r", "e", "c", "o", "m", "m", "e", "n", "d", "e", "d">>, <<"c", "o", "m", "p", "a", "r", "i", "s", "o", "n">>, <<"r", "e", "v", "i", "e", "w">>>>],
      [pattern |-> <<"v", "s">>,
       refinements |-> <<<<"c", "o", "m", "p", "a", "r", "i", "s", "o", "n">>, <<"d", "i", "f", "f", "e", "r", "e", "n", "c", "e", " ", "b", "e", "t", "w", "e", "e", "n">>,
                         <<"w", "h", "i", "c", "h", " ", "i", "s", " ", "b", "e", "t", "t", "e", "r">>>>]>>

TECH_KEYWORDS ==
    {<<"p", "y", "t", "h", "o", "n">>, <<"j", "a", "v", "a", "s", "c", "r", "i", "p", "t">>, <<"j", "a", "v", "a">>, <<"r", "u", "s", "t">>, <<"g", "o", "l", "a", "n", "g">>, <<"t", "y", "p", "e", "s", "c", "r", "i", "p", "t">>,
     <<"r", "e", "a", "c", "t">>, <<"v", "u", "e">>, <<"a", "n", "g", "u", "l", "a", "r">>, <<"n", "o", "d", "e">>, <<"d", "j", "a", "n", "g", "o">>, <<"f", "l", "a", "s", "k">>,
     <<"d", "o", "c", "k", "e", "r">>, <<"k", "u", "b", "e", "r", "n", "e", "t", "e", "s">>, <<"a", "w", "s">>, <<"a", "z", "u", "r", "e">>, <<"g", "c", "p">>}

TIME_KEYWORDS ==
    {<<"l", "a", "t", "e", "s", "t">>, <<"c", "u", "r", "r", "e", "n", "t">>, <<"n", "e", "w">>, <<"r", "e", "c", "e", "n", "t">>, <<"m", "o", "d", "e", "r", "n">>, <<"u", "p", "d", "a", "t", "e", "d">>}


----------------------------------------------------------------------------
(* smart_suggestions: post_search *)

\* q of line 42; the query may be None
NormalQuery(text) == IF text = None THEN <<>> ELSE Lower(StripChars(text))

MIN_QUERY_LEN == 3

\* the suggestions of one pattern of REFINEMENTS (lines 51-56)
RefinementsOf(q, entry) ==
    IF ~Contains(q, entry.pattern) THEN <<>>
    ELSE LET base_query == StripChars(Replace(q, entry.pattern, <<>>))
             wanted == SelectSeq(entry.refinements, LAMBDA r : ~Contains(q, r))
         IN [i \in 1..Len(wanted) |-> Spaced(wanted[i], base_query)]

RECURSIVE RefinementSuggestions(_, _)
RefinementSuggestions(q, entries) ==
    IF entries = <<>> THEN <<>>
    ELSE RefinementsOf(q, Head(entries)) \o RefinementSuggestions(q, Tail(entries))

\* what one technical word of the query appends (lines 65-70)
TechSuffixes(q) ==
    (IF ~Contains(q, <<"t", "u", "t", "o", "r", "i", "a", "l">>) /\ ~Contains(q, <<"g", "u", "i", "d", "e">>)
     THEN <<Spaced(q, <<"t", "u", "t", "o", "r", "i", "a", "l">>)>> ELSE <<>>)
    \o (IF ~Contains(q, <<"d", "o", "c", "u", "m", "e", "n", "t", "a", "t", "i", "o", "n">>) /\ ~Contains(q, <<"d", "o", "c", "s">>)
        THEN <<Spaced(q, <<"d", "o", "c", "u", "m", "e", "n", "t", "a", "t", "i", "o", "n">>)>> ELSE <<>>)
    \o (IF ~Contains(q, <<"e", "x", "a", "m", "p", "l", "e">>) /\ ~Contains(q, <<"e", "x", "a", "m", "p", "l", "e", "s">>)
        THEN <<Spaced(q, <<"e", "x", "a", "m", "p", "l", "e", "s">>)>> ELSE <<>>)

RECURSIVE Times(_, _)
Times(list, n) == IF n = 0 THEN <<>> ELSE list \o Times(list, n - 1)

\* the loop over tech_words appends the same suggestions once per word
TechSuggestions(q) ==
    Times(TechSuffixes(q), Cardinality(Range(SplitChars(q)) \cap TECH_KEYWORDS))

MAX_TITLES == 10

\* title_words of lines 74-80
RECURSIVE TitleWords(_, _)
TitleWords(titles, query_words) ==
    IF titles = <<>> THEN <<>>
    ELSE (IF Falsy(Head(titles)) THEN <<>>
          ELSE SelectSeq(FindLongWords(Lower(Head(titles))),
                         LAMBDA w : w \notin query_words))
         \o TitleWords(Tail(titles), query_words)

\* how often w occurs in words
Count(words, w) == Cardinality({i \in 1..Len(words) : words[i] = w})

\* the different elements of words, in the order they first occur
FirstSeen(words) ==
    SelectSeq([i \in 1..Len(words) |->
                  IF \E j \in 1..(i - 1) : words[j] = words[i] THEN <<>> ELSE words[i]],
              LAMBDA w : w # <<>>)

\* a stable sort by count, largest first
RECURSIVE InsertByCount(_, _, _)
InsertByCount(sorted, w, words) ==
    IF sorted = <<>> THEN <<w>>
    ELSE IF Count(words, w) > Count(words, Head(sorted)) THEN <<w>> \o sorted
    ELSE <<Head(sorted)>> \o InsertByCount(Tail(sorted), w, words)

RECURSIVE SortByCount(_, _)
SortByCount(list, words) ==
    IF list = <<>> THEN <<>>
    ELSE InsertByCount(SortByCount(SubSeq(list, 1, Len(list) - 1), words),
                       list[Len(list)], words)

MOST_COMMON == 5
MIN_COUNT == 2

\* Counter(words).most_common(5): the terms alone
MostCommon(words) ==
    SubSeq(SortByCount(FirstSeen(words), words), 1,
           IF Len(FirstSeen(words)) < MOST_COMMON THEN Len(FirstSeen(words))
           ELSE MOST_COMMON)

\* lines 73-87
TitleSuggestions(q, titles) ==
    LET title_words == TitleWords(SubSeq(titles, 1, IF Len(titles) < MAX_TITLES
                                                    THEN Len(titles) ELSE MAX_TITLES),
                                  Range(SplitChars(q)))
        terms == SelectSeq(MostCommon(title_words),
                           LAMBDA t : Count(title_words, t) >= MIN_COUNT /\ ~Contains(q, t))
    IN [i \in 1..Len(terms) |-> Spaced(q, terms[i])]

\* lines 90-95
YearSuggestion(q, year) ==
    IF ContainsAny(q, TIME_KEYWORDS) /\ ~Contains(q, Str(year))
    THEN <<Spaced(q, Str(year))>>
    ELSE <<>>

\* lines 98-100
AlternativesSuggestion(q) ==
    IF (Contains(q, <<"b", "e", "s", "t">>) \/ Contains(q, <<"t", "o", "p">>)) /\ ~Contains(q, <<"a", "l", "t", "e", "r", "n", "a", "t", "i", "v", "e">>)
    THEN <<Spaced(q, <<"a", "l", "t", "e", "r", "n", "a", "t", "i", "v", "e", "s">>)>>
    ELSE <<>>

\* the list suggestions when line 102 is reached
Candidates(q, titles, year) ==
    RefinementSuggestions(q, REFINEMENTS)
    \o TechSuggestions(q)
    \o TitleSuggestions(q, titles)
    \o YearSuggestion(q, year)
    \o AlternativesSuggestion(q)

\* the text of a suggestion as it is added (line 108)
Shown(s) == IF \E tech \in TECH_KEYWORDS : Contains(s, tech) THEN s ELSE Title(s)

MAX_SUGGESTIONS == 5

\* the loop of lines 103-111
RECURSIVE UniqueSuggestions(_, _, _, _)
UniqueSuggestions(suggestions, q, seen, unique_suggestions) ==
    IF suggestions = <<>> \/ Len(unique_suggestions) >= MAX_SUGGESTIONS
    THEN unique_suggestions
    ELSE LET s == Head(suggestions)
             s_normalized == Lower(StripChars(Head(suggestions)))
         IN IF s_normalized \notin seen /\ s_normalized # q
            THEN UniqueSuggestions(Tail(suggestions), q, seen \cup {s_normalized},
                                   Append(unique_suggestions, Shown(s)))
            ELSE UniqueSuggestions(Tail(suggestions), q, seen, unique_suggestions)

\* the texts post_search hands to result_container.suggestions.add, in order
SuggestPostSearch(text, titles, year) ==
    IF Len(NormalQuery(text)) < MIN_QUERY_LEN THEN <<>>
    ELSE UniqueSuggestions(Candidates(NormalQuery(text), titles, year),
                           NormalQuery(text), {}, <<>>)


----------------------------------------------------------------------------
(* SpecSuggest: smart_suggestions.post_search on an arbitrary query *)

SuggestQueries ==
    {None,
     <<>>,
     <<" ", " ">>,
     <<"a", "b">>,
     <<" ", "G", "o", " ">>,
     <<"a", "b", "c">>,
     <<"b", "e", "s", "t">>,
     <<"B", "e", "s", "t", " ", "P", "y", "t", "h", "o", "n", " ", "V", "S", " ", "n", "e", "w">>,
     <<"h", "o", "w", " ", "t", "o", " ", "r", "u", "s", "t">>,
     <<"w", "h", "a", "t", " ", "i", "s", " ", "x">>,
     <<"p", "y", "t", "h", "o", "n">>,
     <<"t", "o", "p", " ", "b", "e", "s", "t">>,
     <<"l", "a", "t", "e", "s", "t", " ", "2", "0", "2", "6", " ", "d", "o", "c", "s">>,
     <<"j", "a", "v", "a", " ", "v", "s", " ", "j", "a", "v", "a", "s", "c", "r", "i", "p", "t", " ", "g", "u", "i", "d", "e", " ", "e", "x", "a", "m", "p", "l", "e", "s">>,
     <<"T", "u", "t", "o", "r", "i", "a", "l", " ", "h", "o", "w", " ", "t", "o">>,
     <<CAPITAL_I_DOT, "x">>}

TitlePython == <<"P", "y", "t", "h", "o", "n", " ", "T", "u", "t", "o", "r", "i", "a", "l", " ", "G", "u", "i", "d", "e">>
TitleGuide == <<"p", "y", "t", "h", "o", "n", " ", "g", "u", "i", "d", "e", " ", "n", "e", "w", "s">>
TitleRust == <<"T", "h", "e", " ", "R", "u", "s", "t", " ", "B", "o", "o", "k", " ", "2", "0", "2", "6">>
TitleBook == <<"B", "e", "s", "t", "_", "o", "f", " ", "r", "u", "s", "t", " ", "b", "o", "o", "k">>

\* the last list has eleven results: the loop reads the first ten
SuggestTitles ==
    {<<>>,
     <<TitlePython>>,
     <<TitlePython, TitleGuide>>,
     <<TitlePython, None, <<>>, TitleGuide, TitleRust, TitleBook>>,
     <<TitleRust, <<>>, <<>>, <<>>, <<>>, <<>>, <<>>, <<>>, <<>>, <<>>, TitleRust>>}

SuggestYears == {2026, 2027}

InitSuggest ==
    /\ ParserIdle
    /\ FeedIdle
    /\ ExtractIdle
    /\ FetchIdle
    /\ DefaultConfig
    /\ ScoreIdle
    /\ PairIdle
    /\ EnhIdle
    /\ AiIdle
    /\ StripIdle
    /\ gquery \in SuggestQueries
    /\ gtitles \in SuggestTitles
    /\ gyear \in SuggestYears
    /\ gadded = <<>>
    /\ gcalled = FALSE

\* the call post_search(request, search, result_container)
SuggestCall ==
    /\ ~gcalled
    /\ gadded' = SuggestPostSearch(gquery, gtitles, gyear)
    /\ gcalled' = TRUE
    /\ UNCHANGED <<parserVars, feedVars, extractVars, fetchVars, configVars,
                   scoreVars, pairVars, enhVars, aiVars, stripVars,
                   gquery, gtitles, gyear>>

NextSuggest == SuggestCall

SpecSuggest == InitSuggest /\ [][NextSuggest]_vars


\* the query without surrounding blanks; None counts as the empty query
StrippedQuery == IF gquery = None THEN <<>> ELSE StripChars(gquery)

\* a call adds at most 5 suggestions, none of them equal to the query
\* when case is ignored
AtMostFiveNoneEqualQuery ==
    /\ Len(gadded) <= 5
    /\ \A i \in 1..Len(gadded) :
          /\ gquery # None => Lower(gadded[i]) # Lower(gquery)
          /\ Lower(gadded[i]) # Lower(StrippedQuery)

\* C18: a call of post_search adds at most 5 suggestions, none of them equal
\* to the query when case is ignored, and none at all when the stripped
\* query has fewer than 3 characters.
C18_AtMostFiveNoneForShortQuery ==
    gcalled =>
        /\ AtMostFiveNoneEqualQuery
        /\ Len(StrippedQuery) < 3 => gadded = <<>>


----------------------------------------------------------------------------
(* The AI plugins: ai_quick_answer and ai_summarize_select_fetch *)

QUICK == "ai_quick_answer"
SUMMARIZE == "ai_summarize_select_fetch"

\* TRIGGER of the plugin's module, at its default
TRIGGER(plugin) == IF plugin = QUICK THEN <<"!", "!", "a", "s", "k">> ELSE <<"!", "!", "s", "u", "m">>

SELECT_K == 12
FETCH_K == 7
RESULTS_FOR_SELECTION == 40
FALLBACK_RESULTS == 10

\* _strip_trigger(q) of the plugin's module
StripTrigger(plugin, q) == StripChars(Replace(q, TRIGGER(plugin), <<>>))

\* _is_http(url)
IsHttp(url) ==
    \/ IsPrefixAt(<<"h", "t", "t", "p", ":", "/", "/">>, url, 1)
    \/ IsPrefixAt(<<"h", "t", "t", "p", "s", ":", "/", "/">>, url, 1)

\* s[:k] for a list
First(list, k) == SubSeq(list, 1, IF Len(list) < k THEN Len(list) ELSE k)

\* getattr(r, "url", "") or "" for every result
UrlsOf(results) == [i \in 1..Len(results) |-> IF results[i] = None THEN <<>> ELSE results[i]]

\* the URLs of the items of the selection prompt
SelectionItems(results) == First(SelectSeq(UrlsOf(results), IsHttp), RESULTS_FOR_SELECTION)

\* the elements of urls that occur for the first time, in order
Dedupe(urls) ==
    SelectSeq([i \in 1..Len(urls) |->
                  IF \E j \in 1..(i - 1) : urls[j] = urls[i] THEN None ELSE urls[i]],
              LAMBDA u : u # None)

\* what llm_select_urls returns for a reply of the endpoint: the strings of
\* "urls" that are http(s) URLs, without repeats; [] when the reply does not
\* parse
ParseSelection(reply) ==
    IF reply.kind = "malformed" THEN <<>>
    ELSE Dedupe(SelectSeq(reply.urls, LAMBDA u : u # None /\ IsHttp(u)))

\* re.sub(r"^https?://", "", u).split("/")[0].lower()
UpToSlash(s) == UpTo(s, {"/"})

Host(u) ==
    Lower(UpToSlash(IF IsPrefixAt(<<"h", "t", "t", "p", ":", "/", "/">>, u, 1) THEN Drop(u, 7)
                    ELSE IF IsPrefixAt(<<"h", "t", "t", "p", "s", ":", "/", "/">>, u, 1) THEN Drop(u, 8)
                    ELSE u))

\* the fallback of lines 527-539: the first result of every host, until
\* SELECT_K are selected
RECURSIVE FallbackUrls(_, _, _)
FallbackUrls(urls, seen_hosts, selected) ==
    IF urls = <<>> THEN selected
    ELSE IF ~IsHttp(Head(urls)) \/ Host(Head(urls)) \in seen_hosts
    THEN FallbackUrls(Tail(urls), seen_hosts, selected)
    ELSE IF Len(selected) + 1 >= SELECT_K THEN Append(selected, Head(urls))
    ELSE FallbackUrls(Tail(urls), seen_hosts \cup {Host(Head(urls))},
                      Append(selected, Head(urls)))

\* selected of line 524 or, when that is empty, of lines 527-539
Selected(reply, results) ==
    IF ParseSelection(reply) # <<>> THEN ParseSelection(reply)
    ELSE FallbackUrls(UrlsOf(results), {}, <<>>)

\* the calls post_search makes outside the process
SelectCall(q, results) == [fn |-> "llm_select_urls", query |-> q, urls |-> SelectionItems(results)]
FetchCalls(q, urls) == [i \in 1..Len(urls) |-> [fn |-> "fetch", query |-> q, urls |-> <<urls[i]>>]]
SummarizeCall(q, urls) == [fn |-> "llm_summarize", query |-> q, urls |-> urls]
QuickCall(q) == [fn |-> "_get_quick_answer", query |-> q, urls |-> <<>>]

Answer(title, content) == [answer_type |-> "general", title |-> title, content |-> content]

\* how a call of post_search ends
Outcome(container, calls, status) == [container |-> container, calls |-> calls, status |-> status]

WithAnswer(container, answer) == [container EXCEPT !.answers = Append(@, answer)]

\* fetch_pages: the pairs of the URLs whose page gave a text, in order
Extracted(fetched, urls) == SelectSeq(urls, LAMBDA u : u \in fetched.texts)

\* the sources llm_summarize quotes: the extracted pages or, when there are
\* none, the first 10 results
Sources(extracted, results) ==
    IF extracted # <<>> THEN extracted ELSE First(UrlsOf(results), FALLBACK_RESULTS)

\* lines 544-553, once the pages are fetched
SummarizeStep(q, env, container, calls, urls) ==
    IF env.pages.kind = "raise" THEN Outcome(container, calls, "returned")
    ELSE IF env.summary.kind = "raise"
    THEN Outcome(container,
                 Append(calls, SummarizeCall(q, Sources(Extracted(env.pages, urls),
                                                        container.results))),
                 "returned")
    ELSE Outcome(WithAnswer(container, Answer("AI summary", env.summary.text)),
                 Append(calls, SummarizeCall(q, Sources(Extracted(env.pages, urls),
                                                        container.results))),
                 "returned")

\* the pages of all selected URLs are fetched
FetchStep_NoCap(q, env, container, calls, selected) ==
    SummarizeStep(q, env, container, calls \o FetchCalls(q, selected), selected)

\* lines 541-545: the pages of the first FETCH_K selected URLs are fetched
FetchStep(q, env, container, calls, selected) ==
    SummarizeStep(q, env, container, calls \o FetchCalls(q, First(selected, FETCH_K)),
                  First(selected, FETCH_K))

\* lines 521-539: an error of the endpoint leaves llm_select_urls and
\* post_search
SelectStep(q, env, container) ==
    IF env.select.kind = "raise"
    THEN Outcome(container, <<SelectCall(q, container.results)>>, "raised")
    ELSE FetchStep(q, env, container, <<SelectCall(q, container.results)>>,
                   Selected(env.select, container.results))

\* ai_quick_answer, lines 101-117: _get_quick_answer turns an error of the
\* endpoint into the text of the answer
QuickStep(q, env, container) ==
    Outcome(WithAnswer(container,
                       Answer("AI Quick Answer",
                              IF env.quick.kind = "raise"
                              THEN "Unable to generate quick answer"
                              ELSE env.quick.text)),
            <<QuickCall(q)>>, "returned")

\* the two early returns with the test of the trigger left out
Gated_KeyOnly(plugin, key, q) == key = <<>>

\* the two early returns of post_search: no query or no trigger in it, no
\* API key
Gated(plugin, key, q) ==
    \/ q = <<>>
    \/ ~Contains(q, TRIGGER(plugin))
    \/ key = <<>>

\* q of the first line of post_search; the query may be None
AiQuery(text) == IF text = None THEN <<>> ELSE StripChars(text)

\* post_search(request, search, result_container) of either plugin
AiPostSearch(plugin, key, text, env, container) ==
    IF Gated(plugin, key, AiQuery(text)) THEN Outcome(container, <<>>, "returned")
    ELSE IF plugin = QUICK THEN QuickStep(StripTrigger(plugin, AiQuery(text)), env, container)
    ELSE SelectStep(StripTrigger(plugin, AiQuery(text)), env, container)


----------------------------------------------------------------------------
(* SpecAi: post_search of either AI plugin on an arbitrary query *)

UrlA2 == <<"h", "t", "t", "p", ":", "/", "/", "a", ".", "i", "o", "/", "y">>

AiQueries ==
    {None,
     <<>>,
     <<"a", "b", "c">>,
     <<" ", "a", "b", "c", " ", "!", "!", "s", "u", "m", " ">>,
     <<"!", "!", "s", "u", "m">>,
     <<"a", "b", "c", " ", "!", "!", "a", "s", "k">>,
     <<"!", "!", "A", "S", "K", " ", "a", "b", "c">>,
     <<"a", "b", "!", "!", "a", "s", "k", "!", "!", "s", "u", "m", "c">>}

ApiKeys == {<<>>, <<"k", "e", "y">>}

AiResultLists ==
    {<<>>,
     <<UrlDated, None>>,
     <<UrlA, UrlDated, UrlA2, UrlVideo>>}

\* what the endpoint replies to the selection prompt
SelectReplies ==
    {[kind |-> "raise", urls |-> <<>>],
     [kind |-> "malformed", urls |-> <<>>],
     [kind |-> "urls", urls |-> <<>>],
     [kind |-> "urls", urls |-> <<UrlVideo, None, UrlDated, UrlVideo, UrlA>>]}

\* what the page fetches do: the URLs that give a text, or an exception
\* that leaves fetch_pages
PageOutcomes ==
    {[kind |-> "raise", texts |-> {}],
     [kind |-> "texts", texts |-> {}],
     [kind |-> "texts", texts |-> {UrlA, UrlVideo}]}

\* what the endpoint replies to the summary and quick answer prompts
TextReplies ==
    {[kind |-> "raise", text |-> ""],
     [kind |-> "text", text |-> "reply"]}

AiEnvs ==
    [select : SelectReplies, pages : PageOutcomes, summary : TextReplies,
     quick : TextReplies]

\* result_container with or without an answer of another plugin
AiContainers ==
    {[results |-> rs, answers |-> as] :
        rs \in AiResultLists, as \in {<<>>, <<Answer("other", "text")>>}}

InitAi ==
    /\ ParserIdle
    /\ FeedIdle
    /\ ExtractIdle
    /\ FetchIdle
    /\ DefaultConfig
    /\ ScoreIdle
    /\ PairIdle
    /\ EnhIdle
    /\ SugIdle
    /\ StripIdle
    /\ aplugin \in {QUICK, SUMMARIZE}
    /\ aconfig \in ApiKeys
    /\ aquery \in AiQueries
    /\ aenv \in AiEnvs
    /\ abefore \in AiContainers
    /\ acontainer = abefore
    /\ acalls = <<>>
    /\ astatus = "idle"

\* the call post_search(request, search, result_container)
AiCall ==
    /\ astatus = "idle"
    /\ acontainer' = AiPostSearch(aplugin, aconfig, aquery, aenv, acontainer).container
    /\ acalls' = AiPostSearch(aplugin, aconfig, aquery, aenv, acontainer).calls
    /\ astatus' = AiPostSearch(aplugin, aconfig, aquery, aenv, acontainer).status
    /\ UNCHANGED <<parserVars, feedVars, extractVars, fetchVars, configVars,
                   scoreVars, pairVars, enhVars, sugVars, stripVars,
                   aplugin, aconfig, aquery, aenv, abefore>>

NextAi == AiCall

SpecAi == InitAi /\ [][NextAi]_vars


\* the query does not contain the trigger of the plugin
NoTrigger == aquery = None \/ ~Contains(aquery, TRIGGER(aplugin))

\* C19: for both AI plugins, when the query does not contain the trigger or
\* the API key is empty, post_search returns without an LLM or page-fetch
\* call and leaves result_container (results and answers) unchanged.
C19_NoTriggerOrNoKeyNoEffect ==
    (astatus # "idle" /\ (NoTrigger \/ aconfig = <<>>)) =>
        /\ astatus = "returned"
        /\ acalls = <<>>
        /\ acontainer = abefore

\* ai_summarize_select_fetch returned on a query with its trigger but with no
\* API key, while the endpoint would have answered; the container held
\* results and an answer
C19_Witness ==
    /\ astatus = "returned"
    /\ aplugin = SUMMARIZE
    /\ aquery = <<" ", "a", "b", "c", " ", "!", "!", "s", "u", "m", " ">>
    /\ aconfig = <<>>
    /\ aenv.select.kind = "urls"
    /\ aenv.summary.kind = "text"
    /\ abefore.results # <<>>
    /\ abefore.answers # <<>>


----------------------------------------------------------------------------
(* SpecStrip: _strip_trigger of either AI plugin on an arbitrary query *)

MaxTokens == 3

\* the pieces queries are made of: the two triggers, their halves, a blank
\* and a letter
QueryTokens ==
    {<<"!", "!", "s", "u", "m">>, <<"!", "!", "s">>, <<"u", "m">>, <<"!", "!", "a", "s", "k">>, <<"!", "!", "a">>, <<"s", "k">>, <<" ">>, <<"a">>}

RECURSIVE Flat(_)
Flat(parts) == IF parts = <<>> THEN <<>> ELSE Head(parts) \o Flat(Tail(parts))

StripQueries == {Flat(ts) : ts \in UNION {[1..n -> QueryTokens] : n \in 0..MaxTokens}}

InitStrip ==
    /\ ParserIdle
    /\ FeedIdle
    /\ ExtractIdle
    /\ FetchIdle
    /\ DefaultConfig
    /\ ScoreIdle
    /\ PairIdle
    /\ EnhIdle
    /\ SugIdle
    /\ AiIdle
    /\ tplugin \in {QUICK, SUMMARIZE}
    /\ tquery \in StripQueries
    /\ tclean = None

\* the call _strip_trigger(q)
StripCall ==
    /\ tclean = None
    /\ tclean' = StripTrigger(tplugin, tquery)
    /\ UNCHANGED <<parserVars, feedVars, extractVars, fetchVars, configVars,
                   scoreVars, pairVars, enhVars, sugVars, aiVars, tplugin, tquery>>

NextStrip == StripCall

SpecStrip == InitStrip /\ [][NextStrip]_vars

\* C20: for every query, the result of _strip_trigger does not contain the
\* trigger and has no leading or trailing whitespace.
C20_ResultHasNoTriggerNoBlanks ==
    tclean # None =>
        /\ ~Contains(tclean, TRIGGER(tplugin))
        /\ tclean # <<>> => ~IsSpace(tclean[1]) /\ ~IsSpace(tclean[Len(tclean)])

----------------------------------------------------------------------------
(* SpecRank: _extract_enhanced on documents and extractor texts whose       *)
(* blocks differ in score, tie, fall under the cutoffs, and fill the        *)
(* default budget up to 200, 201 and 4500 characters from its end           *)

\* number of blocks of a document, and of paragraphs of an extractor text
MaxRanked == 2
\* the budgets: the default, and one that a single text exceeds
RankBudgets == {DEFAULT_EXTRACT_MAX_CHARS, 300}

\* The scores of two of these texts are either equal in the code's floating
\* point as well, or differ by more than 1 / SCALE.
Text8800 == <<Run("a", 3), Run(" ", 1), Run("a", 8795), Run(".", 1)>>
Text8799 ==
    <<Run("a", 3), Run(" ", 1), Run("a", 3), Run(" ", 1), Run("a", 8790),
      Run(".", 1)>>
\* two texts of 300 characters and equal score
Text300c == <<Run("c", 3), Run(" ", 1), Run("c", 295), Run(".", 1)>>
Text300d == <<Run("d", 3), Run(" ", 1), Run("d", 295), Run(".", 1)>>
\* a text whose score lies between the two cutoffs
TextBetween == <<Run("b", 60)>>
\* 105 characters of which 95 remain when trimmed
TextPadded == <<Run(" ", 10), Run("#", 95)>>
\* 400 characters with a score under both cutoffs
TextNoiseLong == <<Run("#", 400)>>

RankTexts ==
    {TextSentence, TextNoise, TextBetween, Text8800, Text8799, Text300c,
     Text300d, TextHalf}

RankDocs ==
    {Flatten([i \in 1..Len(ts) |-> Element("p", NoAttrs, ts[i])]) :
        ts \in SeqsUpTo(RankTexts, MaxRanked)}

RankTrafOutcomes ==
    {TrafNone}
    \cup {TrafText(Join(NewLines2, ps)) :
            ps \in SeqsUpTo(RankTexts \cup {TextShort, TextPadded, TextNoiseLong},
                            MaxRanked)}

RankQuery == <<Run("a", 3)>>

\* a document from which strategy 1 gets no block
DocShort == Element("p", NoAttrs, TextShort)

InitRank ==
    /\ ParserIdle
    /\ pos = 0
    /\ \/ html \in RankDocs /\ traf = TrafNone
       \/ html = DocShort /\ traf \in RankTrafOutcomes
    /\ query = RankQuery
    /\ result = Pending
    /\ FetchIdle
    /\ EXTRACT_MAX_CHARS \in RankBudgets
    /\ ScoreIdle
    /\ PairIdle
    /\ PluginIdle

\* the call _extract_enhanced(html, url, query)
RankCall == ExtractCall

SpecRank == InitRank /\ [][RankCall]_vars

\* the combined scores of a list of texts
ScoresOf(texts, q) == [i \in 1..Len(texts) |-> CombinedScore(texts[i], q)]

\* item i is ranked before item j: its score is greater, or equal with i
\* earlier in the document
RankedBefore(by_score, i, j) ==
    by_score[i] > by_score[j] \/ (by_score[i] = by_score[j] /\ i < j)

\* the item at rank r: exactly r - 1 items are ranked before it
AtRank(by_score, r) ==
    CHOOSE i \in 1..Len(by_score) :
        Cardinality({j \in 1..Len(by_score) : RankedBefore(by_score, j, i)}) = r - 1

\* the texts with their by_score, by rank
RankOrder(texts, by_score) ==
    [r \in 1..Len(texts) |->
        [score |-> by_score[AtRank(by_score, r)], text |-> texts[AtRank(by_score, r)]]]

InRankOrder(texts, q) == RankOrder(texts, ScoresOf(texts, q))

\* the texts of the first k items
FirstTexts(ranked, k) == [i \in 1..k |-> ranked[i].text]

\* strategy 1 returned the result of the call
FromStrategy1 == result # Pending /\ Strategy1(html, query).kind = "text"

\* strategy 1 ended without a result and the extractor returned a text
FromStrategy2 ==
    /\ result # Pending
    /\ html # <<>>
    /\ Strategy1(html, query).kind = "fallthrough"
    /\ traf.kind = "text"
    /\ traf.text # <<>>

\* the result is the first k items joined, the last one cut or whole
IsJoinedPrefix(text, ranked, k) ==
    LET before == FirstTexts(ranked, k - 1)
        cut == StrLen(text) - (StrLen(Flatten(before)) + 2 * (k - 1))
    IN /\ cut \in 1..StrLen(ranked[k].text)
       /\ text = Join(NewLines2, Append(before, Take(ranked[k].text, cut)))

\* C22: a result of strategy 1 is a prefix of the blocks in rank order
\* (descending combined score, equal scores in document order) joined by
\* blank lines, its last block whole or cut; every block of the prefix
\* has a score of at least 0.1, so no block under the cutoff and no block
\* ranked after a left-out block is in it.
C22_PrefixInRankOrder ==
    FromStrategy1 =>
        LET ranked == InRankOrder(Blocks(html), query) IN
        /\ result.kind = "text"
        /\ \E k \in 1..Len(ranked) :
              /\ IsJoinedPrefix(result.text, ranked, k)
              /\ \A i \in 1..k : ranked[i].score >= MIN_SCORE_BLOCKS

\* C22 witness: two blocks came back in the order of their scores, the
\* second block of the document first
C22_Witness ==
    /\ FromStrategy1
    /\ html = Flatten(<<Element("p", NoAttrs, Text300c),
                        Element("p", NoAttrs, TextSentence)>>)
    /\ CombinedScore(TextSentence, query) > CombinedScore(Text300c, query)
    /\ CombinedScore(Text300c, query) >= MIN_SCORE_BLOCKS
    /\ result.text = Join(NewLines2, <<TextSentence, Text300c>>)

\* the length of the first k items together, as total_chars counts it
TotalLen(ranked, k) == StrLen(Flatten(FirstTexts(ranked, k)))

\* the first k items all reach the cutoff and fit the budget together
Fits(ranked, k, min_score) ==
    \A i \in 1..k :
        ranked[i].score >= min_score /\ TotalLen(ranked, i) <= EXTRACT_MAX_CHARS

\* the number of items taken whole: the longest prefix that fits
Whole(ranked, min_score) ==
    CHOOSE k \in 0..Len(ranked) :
        Fits(ranked, k, min_score)
            /\ (k = Len(ranked) \/ ~Fits(ranked, k + 1, min_score))

\* accumulation ended at an item that reaches the cutoff and would exceed
\* the budget
Overflows(ranked, min_score) ==
    LET k == Whole(ranked, min_score) IN
    k < Len(ranked) /\ ranked[k + 1].score >= min_score

\* the budget left when accumulation ended
Remaining(ranked, min_score) ==
    EXTRACT_MAX_CHARS - TotalLen(ranked, Whole(ranked, min_score))

\* the parts when the overflowing item is cut to the remaining budget, and
\* given suffix, if at least `least` characters remain, and left out
\* otherwise
PartsWithCut(ranked, min_score, least, suffix) ==
    LET k == Whole(ranked, min_score)
        remaining == Remaining(ranked, min_score)
    IN IF remaining >= least
       THEN Append(FirstTexts(ranked, k),
                   Cat(Take(ranked[k + 1].text, remaining), suffix))
       ELSE FirstTexts(ranked, k)

\* strategy 1 ran on a document with blocks and the call has returned
Strategy1Ran ==
    /\ result # Pending
    /\ Feed(NewAnalyzer, html).exc = "none"
    /\ Blocks(html) # <<>>

\* the paragraphs strategy 2 scores
LongParagraphs == KeepLong(SplitParagraphs(traf.text, <<>>))

\* what the call returns when strategy 1 collected these parts: their
\* join, if it has more than 100 characters
Strategy1Gives(parts) ==
    (parts # <<>> /\ StrLen(Join(NewLines2, parts)) > MIN_RESULT_LEN)
        => result = ReturnText(Join(NewLines2, parts))

\* what the call returns when strategy 2 collected these parts
Strategy2Gives(parts) ==
    parts # <<>> => result = ReturnText(Join(NewLines2, parts))

\* the rule of the overflowing item in both strategies
CutRule(least, suffix) ==
    /\ Strategy1Ran =>
          LET ranked == InRankOrder(Blocks(html), query) IN
          Overflows(ranked, MIN_SCORE_BLOCKS) =>
              Strategy1Gives(PartsWithCut(ranked, MIN_SCORE_BLOCKS, least, <<>>))
    /\ FromStrategy2 =>
          LET ranked == InRankOrder(LongParagraphs, query) IN
          Overflows(ranked, MIN_SCORE_PARAGRAPHS) =>
              Strategy2Gives(PartsWithCut(ranked, MIN_SCORE_PARAGRAPHS, least, suffix))

\* C23 (as claimed): when the next item in rank order would exceed the
\* budget and at least 200 characters remain, the item is cut to exactly
\* the remaining budget, appended, and accumulation stops; with fewer than
\* 200 remaining it stops without the item.
C23_CutWhenAtLeast200Remain == CutRule(MIN_REMAINING, <<>>)

\* C23 (amended): the item is cut and appended when more than 200
\* characters remain, and left out when 200 or fewer remain; the cut item
\* has exactly the remaining number of characters, followed in strategy 2
\* by one ellipsis character.
C23_CutWhenOver200Remain == CutRule(MIN_REMAINING + 1, <<Run(ELLIPSIS, 1)>>)

\* C23 witness: after a block of 8799 characters 201 remain, and the
\* block of 300 that follows in rank order came back cut to 201
C23_Witness ==
    /\ Strategy1Ran
    /\ html = Flatten(<<Element("p", NoAttrs, Text300c),
                        Element("p", NoAttrs, Text8799)>>)
    /\ Overflows(InRankOrder(Blocks(html), query), MIN_SCORE_BLOCKS)
    /\ EXTRACT_MAX_CHARS = DEFAULT_EXTRACT_MAX_CHARS
    /\ Remaining(InRankOrder(Blocks(html), query), MIN_SCORE_BLOCKS) = 201
    /\ result.text = Join(NewLines2, <<Text8799, Take(Text300c, 201)>>)

\* the paragraphs of the extractor's text with at least 50 characters when
\* trimmed, in the order of the text
ParagraphsOver50 ==
    SelectSeq(SplitParagraphs(traf.text, <<>>),
              LAMBDA p : StrLen(Strip(p)) >= MIN_PARAGRAPH_LEN)

\* the parts accumulation collects from the ranked items: the longest
\* prefix that reaches the cutoff and fits, and the cut item if there is one
PartsOf(ranked, min_score, suffix) ==
    IF Overflows(ranked, min_score)
    THEN PartsWithCut(ranked, min_score, MIN_REMAINING + 1, suffix)
    ELSE FirstTexts(ranked, Whole(ranked, min_score))

\* the paragraphs strategy 2 accepts
AcceptedParagraphs ==
    PartsOf(InRankOrder(ParagraphsOver50, query), MIN_SCORE_PARAGRAPHS,
            <<Run(ELLIPSIS, 1)>>)

\* C24: in strategy 2 the result is made of the paragraphs of at least 50
\* characters that reach the cutoff 0.05, in rank order under the budget;
\* when the extractor returned a text and no paragraph is accepted, the
\* result is the first EXTRACT_MAX_CHARS characters of that text if the
\* text trimmed has more than 100 characters, and None otherwise.
C24_ParagraphsOrRawText ==
    FromStrategy2 =>
        IF AcceptedParagraphs # <<>>
        THEN result = ReturnText(Join(NewLines2, AcceptedParagraphs))
        ELSE IF StrLen(Strip(traf.text)) > MIN_RESULT_LEN
        THEN result = ReturnText(Take(traf.text, EXTRACT_MAX_CHARS))
        ELSE result = ReturnNone

\* C24 witness: the extractor returned a paragraph of 6 characters and one
\* of 400 under the cutoff; none is accepted and the first 300 characters
\* of the text came back
C24_Witness ==
    /\ FromStrategy2
    /\ traf.text = Join(NewLines2, <<TextShort, TextNoiseLong>>)
    /\ EXTRACT_MAX_CHARS = 300
    /\ ParagraphsOver50 = <<TextNoiseLong>>
    /\ CombinedScore(TextNoiseLong, query) < MIN_SCORE_PARAGRAPHS
    /\ CombinedScore(TextShort, query) >= MIN_SCORE_PARAGRAPHS
    /\ AcceptedParagraphs = <<>>
    /\ result = ReturnText(Take(traf.text, 300))

----------------------------------------------------------------------------
(* SpecZone: one ContentAnalyzer fed a document made of an excluded         *)
(* element and a paragraph that follows it.  html.parser reports an        *)
(* element written without a close tag (<br>, <img>, <input>) by a start   *)
(* tag alone, and one written <br/> by a start tag and an end tag.         *)

\* number of children of the excluded element
MaxZone == 2

TextExcluded == <<Run("x", 60)>>

\* what the excluded element holds: a text, an element without a close
\* tag, the same written self-closing, and a paragraph
ZoneChildren ==
    {<<DataEvent(TextExcluded)>>,
     <<StartEvent("br", NoAttrs)>>,
     <<StartEvent("br", NoAttrs), EndEvent("br")>>,
     Element("p", NoAttrs, TextExcluded)}

\* the excluded elements: <nav> and <div class="NAV-top"> around children,
\* and <input>, which has no content and no close tag
Zones ==
    {<<StartEvent("nav", NoAttrs)>> \o Flatten(cs) \o <<EndEvent("nav")>> :
        cs \in SeqsUpTo(ZoneChildren, MaxZone)}
    \cup {<<StartEvent("div", ClassNavTop)>> \o Flatten(cs) \o <<EndEvent("div")>> :
            cs \in SeqsUpTo(ZoneChildren, MaxZone)}
    \cup {<<StartEvent("input", NoAttrs)>>}

\* the paragraph after the excluded element
Follower == Element("p", NoAttrs, TextSentence)

ZoneDocs == {z \o Follower : z \in Zones}

\* the number of events of the excluded element of a document
ZoneLen(doc) == Len(doc) - Len(Follower)

InitZone ==
    /\ analyzer = NewAnalyzer
    /\ raised = "none"
    /\ ndata = 0
    /\ html \in ZoneDocs
    /\ pos = 0
    /\ ExtractIdle
    /\ FetchIdle
    /\ RestIdle

\* feed() hands the next event of the document to its handler
ZoneEvent == FeedEvent

SpecZone == InitZone /\ [][ZoneEvent]_vars

\* C25 (as claimed): once the last event of the excluded element has been
\* processed, in_excluded is false and excluded_depth is 0, and the text of
\* the paragraph that follows the element is accumulated and emitted; also
\* when the element holds, or is, an element without a close tag.
C25_ZoneEndsWithItsElement ==
    /\ pos = ZoneLen(html) =>
          ~analyzer.in_excluded /\ analyzer.excluded_depth = 0
    /\ pos = Len(html) => analyzer.content_blocks = <<TextSentence>>

----------------------------------------------------------------------------
(* SpecPages: fetch_pages on a batch of URLs whose pages are longer than    *)
(* the budget of characters or than FETCH_MAX_BYTES                         *)

TextHalfC == <<Run("c", 4500)>>
\* a text of the letter b that outranks a longer text of the letter a
TextBeyond == <<Run("a", 3), Run(" ", 1), Run("b", 145), Run(".", 1)>>

\* two paragraphs that fit the budget together and, joined, exceed it
BodyTwoHalves ==
    Element("p", NoAttrs, TextHalf) \o Element("p", NoAttrs, TextHalfC)
\* a body longer than FETCH_MAX_BYTES: the text of its second paragraph,
\* the only one with the letter b, lies beyond the cut
BodyBeyond ==
    Element("p", NoAttrs, <<Run("a", FETCH_MAX_BYTES - 10)>>)
        \o Element("p", NoAttrs, TextBeyond)

SiteTwoHalves == SiteResponse(200, BodyTwoHalves, TrafNone)
SiteBeyond == SiteResponse(200, BodyBeyond, TrafNone)

PageSites == {SiteTwoHalves, SiteBeyond, SiteShort, SiteArticle}

InitPages ==
    /\ ParserIdle
    /\ FeedIdle
    /\ traf = TrafNone
    /\ result = Pending
    /\ query = FetchQuery
    /\ site \in [Urls -> PageSites]
    /\ pc = [u \in Urls |-> "created"]
    /\ out = [u \in Urls |-> Pending]
    /\ phase = "gathering"
    /\ pages = <<>>
    /\ RestIdle

SpecPages == InitPages /\ [][NextFetch]_vars

\* C26: every pair fetch_pages returns has a text that is not empty and
\* has at most EXTRACT_MAX_CHARS characters plus one ellipsis, and no text
\* holds what the body has beyond its first FETCH_MAX_BYTES bytes.
C26_PagesWithinBudgetAndCut ==
    \A i \in 1..Len(pages) :
        /\ pages[i].text # <<>>
        /\ StrLen(pages[i].text) <= EXTRACT_MAX_CHARS + 1
        /\ ~HasChar(pages[i].text, "b")

\* C26 witness: fetch_pages returned a text cut to the budget and marked
\* with the ellipsis, and the text of a page longer than FETCH_MAX_BYTES
C26_Witness ==
    /\ phase = "returned"
    /\ site[1] = SiteTwoHalves /\ site[2] = SiteBeyond
    /\ Len(pages) >= 2
    /\ pages[1].text =
          <<Run("a", 4500), Run("\n", 2), Run("c", 4498), Run(ELLIPSIS, 1)>>
    /\ pages[2].text = <<Run("a", EXTRACT_MAX_CHARS)>>

----------------------------------------------------------------------------
(* SpecSelect: post_search of ai_summarize_select_fetch on result lists and *)
(* selection replies with more URLs than are fetched, with repeated URLs,   *)
(* repeated hosts, and entries that are no http(s) URL                      *)

\* http://<c>.io/
SiteUrl(c) == <<"h", "t", "t", "p", ":", "/", "/", c, ".", "i", "o", "/">>

UrlFtp == <<"f", "t", "p", ":", "/", "/", "a", ".", "i", "o", "/">>
UrlUpperHost == <<"h", "t", "t", "p", ":", "/", "/", "A", ".", "i", "o", "/">>
UrlUpperScheme == <<"H", "T", "T", "P", ":", "/", "/", "b", ".", "i", "o", "/">>
UrlSecure == <<"h", "t", "t", "p", "s", ":", "/", "/", "c", ".", "i", "o", "/">>
UrlPage == <<"h", "t", "t", "p", ":", "/", "/", "c", ".", "i", "o", "/", "p">>

\* result_container.results, by the url of each result: fourteen hosts,
\* among them a repeated URL, two URLs of one host, a host in upper case, a
\* result without url and one with another scheme
ResultPool ==
    <<SiteUrl("a"), SiteUrl("b"), UrlFtp, SiteUrl("a"), UrlUpperHost, None,
      SiteUrl("c"), UrlPage, UrlDated>>
    \o [i \in 1..11 |-> SiteUrl(LowerCase[i + 3])]

\* the "urls" of a selection reply: nine http(s) URLs, among them a
\* repeated one, and entries that are no string or no http(s) URL
ReplyPool ==
    <<SiteUrl("a"), None, SiteUrl("a"), UrlFtp, UrlDated, UrlUpperScheme,
      SiteUrl("b"), UrlSecure>>
    \o [i \in 1..6 |-> SiteUrl(LowerCase[i + 3])]

\* the lists s[i:j]
Slices(list) ==
    {SubSeq(list, i, j) : i \in 1..(Len(list) + 1), j \in 0..Len(list)}

Prefixes(list) == {SubSeq(list, 1, j) : j \in 0..Len(list)}

SelectQuery == <<"a", "b", "c", " ", "!", "!", "s", "u", "m">>

SelectEnvs ==
    [select : {[kind |-> "raise", urls |-> <<>>],
               [kind |-> "malformed", urls |-> <<>>]}
              \cup {[kind |-> "urls", urls |-> us] : us \in Slices(ReplyPool)},
     pages : {[kind |-> "raise", texts |-> {}],
              [kind |-> "texts", texts |-> {SiteUrl("a"), SiteUrl("d")}]},
     summary : TextReplies,
     quick : {[kind |-> "text", text |-> "reply"]}]

InitSelect ==
    /\ ParserIdle
    /\ FeedIdle
    /\ ExtractIdle
    /\ FetchIdle
    /\ DefaultConfig
    /\ ScoreIdle
    /\ PairIdle
    /\ EnhIdle
    /\ SugIdle
    /\ StripIdle
    /\ aplugin = SUMMARIZE
    /\ aconfig = <<"k", "e", "y">>
    /\ aquery = SelectQuery
    /\ aenv \in SelectEnvs
    /\ abefore \in {[results |-> rs, answers |-> <<>>] : rs \in Prefixes(ResultPool)}
    /\ acontainer = abefore
    /\ acalls = <<>>
    /\ astatus = "idle"

\* the call post_search(request, search, result_container)
SelectCallOf == AiCall

SpecSelect == InitSelect /\ [][SelectCallOf]_vars

\* the list fetch_pages was called with: the URLs fetched, in order
UrlsToFetch ==
    LET fetches == SelectSeq(acalls, LAMBDA c : c.fn = "fetch") IN
    [i \in 1..Len(fetches) |-> fetches[i].urls[1]]

\* whether a URL begins with http:// or https://
BeginsWithHttp(u) ==
    \/ Len(u) >= 7 /\ SubSeq(u, 1, 7) = <<"h", "t", "t", "p", ":", "/", "/">>
    \/ Len(u) >= 8 /\ SubSeq(u, 1, 8) = <<"h", "t", "t", "p", "s", ":", "/", "/">>

\* the selection reply names at least one http(s) URL
ReplySelects ==
    /\ aenv.select.kind = "urls"
    /\ \E i \in 1..Len(aenv.select.urls) :
          aenv.select.urls[i] # None /\ BeginsWithHttp(aenv.select.urls[i])

\* the list the URLs were selected from: the reply's, or else the results'
SelectedFrom == IF ReplySelects THEN aenv.select.urls ELSE abefore.results

\* the first place of u in a list
FirstIndex(list, u) == CHOOSE i \in 1..Len(list) : list[i] = u /\ \A j \in 1..(i - 1) : list[j] # u

\* C27: the list of URLs post_search hands to fetch_pages holds only
\* http:// and https:// URLs, none twice, at most FETCH_K of them, each
\* taken from the selection reply or, when that selects nothing, from the
\* results, in the order of their first occurrence there.
C27_FetchListWellFormed ==
    LET urls == UrlsToFetch IN
    /\ Len(urls) <= FETCH_K
    /\ \A i \in 1..Len(urls) :
          /\ BeginsWithHttp(urls[i])
          /\ \E k \in 1..Len(SelectedFrom) : SelectedFrom[k] = urls[i]
    /\ \A i, j \in 1..Len(urls) :
          i < j => /\ urls[i] # urls[j]
                   /\ FirstIndex(SelectedFrom, urls[i]) < FirstIndex(SelectedFrom, urls[j])

\* C27 witness: the reply named nine different http(s) URLs, one twice,
\* between entries that are none, and the first seven were fetched
C27_Witness ==
    /\ astatus = "returned"
    /\ aenv.select.urls = ReplyPool
    /\ Len(UrlsToFetch) = FETCH_K
    /\ UrlsToFetch[1] = SiteUrl("a")
    /\ UrlsToFetch[2] = SiteUrl("b")
    /\ UrlsToFetch[3] = UrlSecure

\* a step of ai_summarize_select_fetch failed: the endpoint raised on the
\* selection or the summary prompt, or fetch_pages raised
StepFailed ==
    \/ aenv.select.kind = "raise"
    \/ aenv.pages.kind = "raise"
    \/ aenv.summary.kind = "raise"

\* C28 (as claimed): when URL selection, page fetching or summarization
\* fails, post_search of ai_summarize_select_fetch returns without raising,
\* appends no answer and leaves result_container.results unchanged.
C28_FailsClosed ==
    (astatus # "idle" /\ aplugin = SUMMARIZE /\ StepFailed) =>
        /\ astatus = "returned"
        /\ acontainer = abefore


----------------------------------------------------------------------------
(* SpecStream: one ContentAnalyzer fed arbitrary documents of paragraphs,  *)
(* excluded elements and text runs, every text run of its own letter        *)

MaxEvents == 5

\* the letter of the k-th text run of a document
RunLetters == <<"a", "b", "c", "d", "e", "f", "g", "h">>

\* the events a document is made of: <p>, <p class="NAV-top">, <nav>, </p>,
\* </nav>, a text run of 60 characters and one of 20
Shapes == {"p", "p.nav", "nav", "/p", "/nav", "long", "short"}

IsRunShape(shape) == shape \in {"long", "short"}

\* the number of text runs among the first k events
RunCount(shapes, k) ==
    Cardinality({i \in 1..k : IsRunShape(shapes[i])})

EventOf(shapes, k) ==
    CASE shapes[k] = "p" -> StartEvent("p", NoAttrs)
      [] shapes[k] = "p.nav" -> StartEvent("p", ClassNavTop)
      [] shapes[k] = "nav" -> StartEvent("nav", NoAttrs)
      [] shapes[k] = "/p" -> EndEvent("p")
      [] shapes[k] = "/nav" -> EndEvent("nav")
      [] shapes[k] = "long" ->
            DataEvent(<<Run(RunLetters[RunCount(shapes, k)], 60)>>)
      [] shapes[k] = "short" ->
            DataEvent(<<Run(RunLetters[RunCount(shapes, k)], 20)>>)

DocOf(shapes) == [k \in 1..Len(shapes) |-> EventOf(shapes, k)]

StreamDocs == {DocOf(shapes) : shapes \in SeqsUpTo(Shapes, MaxEvents)}

InitStream ==
    /\ analyzer = NewAnalyzer
    /\ raised = "none"
    /\ ndata = 0
    /\ html \in StreamDocs
    /\ pos = 0
    /\ ExtractIdle
    /\ FetchIdle
    /\ RestIdle

SpecStream == InitStream /\ [][FeedEvent]_vars

\* whether s is the beginning of t
StartsWith(t, s) == Len(s) <= Len(t) /\ SubSeq(t, 1, Len(s)) = s

\* the text runs of the events handled so far, in document order
RunsFed ==
    LET fed == SelectSeq(SubSeq(html, 1, pos), LAMBDA e : e.type = "data")
    IN [k \in 1..Len(fed) |-> fed[k].data]

\* the text runs a block was joined from
RunsOfBlock(block) ==
    LET kept == SelectSeq(block, LAMBDA r : r.c # " ")
    IN [k \in 1..Len(kept) |-> <<kept[k]>>]

\* the text runs of all blocks, in block order
RunsEmitted ==
    Flatten([i \in 1..Len(analyzer.content_blocks) |->
                RunsOfBlock(analyzer.content_blocks[i])])

\* where a text run stands in the document
RunIndex(run) == CHOOSE k \in 1..Len(RunsFed) : RunsFed[k] = run

\* C29: content_blocks only grows at its end; every block is the join of
\* text runs of the document; and the text runs of all blocks, in block
\* order, stand in the document in that order, none of them twice.
C29_BlocksInDocumentOrder ==
    /\ [][StartsWith(analyzer'.content_blocks, analyzer.content_blocks)]_vars
    /\ [](/\ \A i \in 1..Len(analyzer.content_blocks) :
                analyzer.content_blocks[i] =
                    BlockText(RunsOfBlock(analyzer.content_blocks[i]))
          /\ \A i \in 1..Len(RunsEmitted) :
                \E k \in 1..Len(RunsFed) : RunsFed[k] = RunsEmitted[i]
          /\ \A i, j \in 1..Len(RunsEmitted) :
                i < j => RunIndex(RunsEmitted[i]) < RunIndex(RunsEmitted[j]))

\* C29 witness: <p>a..</p>b..</p> was fed and both runs were emitted, each
\* as a block of its own
C29_Witness ==
    /\ html = DocOf(<<"p", "long", "/p", "long", "/p">>)
    /\ pos = Len(html)
    /\ analyzer.content_blocks = <<<<Run("a", 60)>>, <<Run("b", 60)>>>>

\* the instance after the first k events of the document
AnalyzerAt(k) == Feed(NewAnalyzer, SubSeq(html, 1, k)).self

\* whether event k is the close tag of a content-bearing tag that leaves
\* the parser outside any excluded region
IsContentClose(k) ==
    /\ html[k].type = "end"
    /\ html[k].tag \in CONTENT_TAGS
    /\ ~AnalyzerAt(k).in_excluded

\* the text runs fed after the last such close tag
TrailingRuns ==
    {html[k].data : k \in {i \in 1..Len(html) :
        /\ html[i].type = "data"
        /\ \A j \in i..Len(html) : ~IsContentClose(j)}}

============================================================================
